---------------------------- MODULE Spec2Model ----------------------------
(***************************************************************************)
(* Dual-output LUT technology mapper (techlibs/pango): GraphUtils,         *)
(* TimingAnalyzer, MappingContext, TruthTableComputer, HeuristicEvaluator, *)
(* CutManager, GlobalMerger and the DualOutputMapper controller.           *)
(*                                                                         *)
(* A signal (SigBit) is a positive integer; 0 is the invalid SigBit().     *)
(* std::sort on SigBit is the integer order.  A pool<SigBit> is a set; the *)
(* order in which a pool or dict is iterated is not the sorted order, it   *)
(* is fixed per run by the variable poolOrder.                             *)
(***************************************************************************)
EXTENDS Integers, Sequences, FiniteSets, TLC

VARIABLES
    module,            \* index of the netlist being mapped (Module *module)
    poolOrder,         \* iteration order of hashlib pool/dict for this run
    topo_order,        \* GraphUtils::topo_order
    loop_warning,      \* computeTopologicalOrder has called log_warning
    arrival_time,      \* TimingAnalyzer::arrival_time
    required_time,     \* TimingAnalyzer::required_time
    critical_depth,    \* TimingAnalyzer::critical_depth
    current_mode,      \* HeuristicEvaluator::current_mode
    max_cut_size,      \* CutManager::max_cut_size
    max_cuts,          \* CutManager::max_cuts
    priority_cuts,     \* CutManager::priority_cuts
    cut_pos,           \* position of computePriorityCuts in topo_order (0: not running)
    fanout_refs,       \* MappingContext::fanout_refs
    used,              \* MappingContext::used
    current_mapping,   \* MappingContext::current_mapping
    exact_area_cache,  \* MappingContext::exact_area_cache
    cache_iteration,   \* MappingContext::cache_iteration
    current_iteration, \* MappingContext::current_iteration
    ret,               \* value returned by the last MappingContext call
    enable_double_output, \* GlobalMerger::enable_double_output
    Q,                 \* the multiset Q of runGlobalMapping, in comparator order
    visited,           \* the pool visited of runGlobalMapping
    single_mappings,   \* GlobalMerger::single_mappings
    double_mappings,   \* GlobalMerger::double_mappings
    pc,                \* position of the controller / of runGlobalMapping
    pass,              \* which pass of DualOutputMapper::run is executing
    iter,              \* loop counter of runAreaFlowMapping
    prev_area,         \* prev_area of runAreaFlowMapping
    lut_count,         \* LUTs of the mapping the last runGlobalMapping returned
    luts,              \* the GTP_LUT6 and GTP_LUT6D cells added by generateNetlist
    removed,           \* the cells generateNetlist has removed from the module
    call_args,         \* arguments of the last call of a function called on its own
    call_ret           \* value that call returned

graphVars  == <<module, poolOrder, topo_order, loop_warning>>
timingVars == <<arrival_time, required_time, critical_depth>>
cutVars    == <<max_cut_size, max_cuts, priority_cuts, cut_pos>>
ctxVars    == <<fanout_refs, used, current_mapping, exact_area_cache,
                cache_iteration, current_iteration, ret>>
mergerVars == <<enable_double_output, Q, visited, single_mappings, double_mappings>>
ctlVars    == <<pc, pass, iter, prev_area, lut_count>>
netVars    == <<luts, removed>>
callVars   == <<call_args, call_ret>>
vars == <<graphVars, timingVars, current_mode, cutVars, ctxVars, mergerVars, ctlVars,
          netVars, callVars>>

-----------------------------------------------------------------------------
(* Generic helpers *)

Max(a, b) == IF a >= b THEN a ELSE b
Min(a, b) == IF a <= b THEN a ELSE b
Abs(a) == IF a >= 0 THEN a ELSE 0 - a

Range(s) == {s[i] : i \in DOMAIN s}

\* dict operator[] assignment
Put(f, k, v) == (k :> v) @@ f

\* the function f with every value computed
Eager(f) == f @@ <<>>

\* dict lookup with a default for a missing key
Get(f, k, d) == IF k \in DOMAIN f THEN f[k] ELSE d

\* F applied to the value of x, with x computed once
With(x, F(_)) == CHOOSE r \in {F(v) : v \in {x}} : TRUE

RECURSIVE Pow2(_)
Pow2(n) == IF n = 0 THEN 1 ELSE 2 * Pow2(n - 1)

\* bit i of the combination c, as (c & (1 << i)) != 0
Bit(c, i) == (c \div Pow2(i)) % 2

RECURSIVE SumOver(_, _)
SumOver(f, S0) ==
    With(S0, LAMBDA S :
        IF S = {} THEN 0
        ELSE With(CHOOSE y \in S : TRUE, LAMBDA x : f[x] + SumOver(f, S \ {x})))

\* the elements of S as a sequence, ascending by rank
RECURSIVE SeqByRank(_, _)
SeqByRank(S0, rank) ==
    With(S0, LAMBDA S :
        IF S = {} THEN <<>>
        ELSE With(CHOOSE y \in S : \A z \in S : rank[y] <= rank[z],
                  LAMBDA x : <<x>> \o SeqByRank(S \ {x}, rank)))

\* the order of the indices of a LUT's inputs
IndexRank == [j \in 0..6 |-> j]

-----------------------------------------------------------------------------
(* Netlists.  A cell has a type, an ordered list of input bits and one     *)
(* output bit.  $_MUX_ has inputs <<A, B, S>> and computes S ? B : A.      *)

Cell(t, i, o) == [type |-> t, ins |-> i, out |-> o]

\* S1: y = a & b
ModAnd == [nsig |-> 3, PI |-> {1, 2}, PO |-> {3},
           cells |-> << Cell("$_AND_", <<1, 2>>, 3) >>]

\* S2: chained XORs t1 = a^b, t2 = t1^c, y = t2^d
ModXorChain == [nsig |-> 7, PI |-> {1, 2, 3, 4}, PO |-> {7},
                cells |-> << Cell("$_XOR_", <<1, 2>>, 5),
                             Cell("$_XOR_", <<5, 3>>, 6),
                             Cell("$_XOR_", <<6, 4>>, 7) >>]

\* S3: shared fan-out t = a&b, y1 = t^c, y2 = t|c
ModShared == [nsig |-> 6, PI |-> {1, 2, 3}, PO |-> {5, 6},
              cells |-> << Cell("$_AND_", <<1, 2>>, 4),
                           Cell("$_XOR_", <<4, 3>>, 5),
                           Cell("$_OR_",  <<4, 3>>, 6) >>]

\* S4: z = f ? ((c&d)^e) : (a|b), z5 = a|b   (a..f = 1..6)
ModDualLegal == [nsig |-> 10, PI |-> {1, 2, 3, 4, 5, 6}, PO |-> {7, 10},
                 cells |-> << Cell("$_OR_",  <<1, 2>>, 7),
                              Cell("$_AND_", <<3, 4>>, 8),
                              Cell("$_XOR_", <<8, 5>>, 9),
                              Cell("$_MUX_", <<7, 9, 6>>, 10) >>]

\* S5: z = f ? ((c&d)^e) : (a|b), z5 = a&b
ModDualIllegal == [nsig |-> 11, PI |-> {1, 2, 3, 4, 5, 6}, PO |-> {8, 11},
                   cells |-> << Cell("$_OR_",  <<1, 2>>, 7),
                                Cell("$_AND_", <<1, 2>>, 8),
                                Cell("$_AND_", <<3, 4>>, 9),
                                Cell("$_XOR_", <<9, 5>>, 10),
                                Cell("$_MUX_", <<7, 10, 6>>, 11) >>]

\* S6: combinational cycle t = a & u, u = t | a
ModCycle == [nsig |-> 3, PI |-> {1}, PO |-> {3},
             cells |-> << Cell("$_AND_", <<1, 3>>, 2),
                          Cell("$_OR_",  <<2, 1>>, 3) >>]

\* an AND chain over seven primary inputs: the cone of 13 has 7 leaves
ModWide == [nsig |-> 13, PI |-> {1, 2, 3, 4, 5, 6, 7}, PO |-> {13},
            cells |-> << Cell("$_AND_", <<1, 2>>, 8),
                         Cell("$_AND_", <<8, 3>>, 9),
                         Cell("$_AND_", <<9, 4>>, 10),
                         Cell("$_AND_", <<10, 5>>, 11),
                         Cell("$_AND_", <<11, 6>>, 12),
                         Cell("$_AND_", <<12, 7>>, 13) >>]

\* registered design: g = a&b feeds a flip-flop, h = ~q drives the output buffer
ModSeq == [nsig |-> 6, PI |-> {1, 2}, PO |-> {6},
           cells |-> << Cell("$_AND_", <<1, 2>>, 3),
                        Cell("GTP_DFF", <<3>>, 4),
                        Cell("$_NOT_", <<4>>, 5),
                        Cell("GTP_OUTBUF", <<5>>, 6) >>]

\* z = f ? (a&b&c) : (d&e), z5 = a&b
ModDualSwap == [nsig |-> 10, PI |-> {1, 2, 3, 4, 5, 6}, PO |-> {7, 10},
                cells |-> << Cell("$_AND_", <<1, 2>>, 7),
                             Cell("$_AND_", <<7, 3>>, 8),
                             Cell("$_AND_", <<4, 5>>, 9),
                             Cell("$_MUX_", <<9, 8, 6>>, 10) >>]

\* z = f ? a : (a^b^c^d^e), z5 = a^b^c^d^e
ModDualFive == [nsig |-> 11, PI |-> {1, 2, 3, 4, 5, 6}, PO |-> {10, 11},
                cells |-> << Cell("$_XOR_", <<1, 2>>, 7),
                             Cell("$_XOR_", <<7, 3>>, 8),
                             Cell("$_XOR_", <<8, 4>>, 9),
                             Cell("$_XOR_", <<9, 5>>, 10),
                             Cell("$_MUX_", <<10, 1, 6>>, 11) >>]

\* two inverters in series: t = ~a, y = ~t
ModInvChain == [nsig |-> 3, PI |-> {1}, PO |-> {3},
                cells |-> << Cell("$_NOT_", <<1>>, 2),
                             Cell("$_NOT_", <<2>>, 3) >>]

\* z = f ? (d&e) : ((a|b)^c) on bit 7, z5 = (a|b)^c on bit 10
ModDualPair == [nsig |-> 10, PI |-> {1, 2, 3, 4, 5, 6}, PO |-> {7, 10},
                cells |-> << Cell("$_OR_",  <<1, 2>>, 8),
                             Cell("$_AND_", <<4, 5>>, 9),
                             Cell("$_XOR_", <<8, 3>>, 10),
                             Cell("$_MUX_", <<10, 9, 6>>, 7) >>]

\* two inverters in series with both stages brought out: t = ~a, y = ~t
ModInvTap == [nsig |-> 3, PI |-> {1}, PO |-> {2, 3},
              cells |-> << Cell("$_NOT_", <<1>>, 2),
                           Cell("$_NOT_", <<2>>, 3) >>]

\* a combinational cycle between two gates: g = a&b, t = g&u, u = t|a, y = ~u
ModCycleTail == [nsig |-> 6, PI |-> {1, 2}, PO |-> {6},
                 cells |-> << Cell("$_AND_", <<1, 2>>, 3),
                              Cell("$_AND_", <<3, 5>>, 4),
                              Cell("$_OR_",  <<4, 1>>, 5),
                              Cell("$_NOT_", <<5>>, 6) >>]

\* three outputs, two of them over the third: x = a^b^c^d^e,
\* z1 = f ? a : x, z2 = f ? b : x
ModDualTwice == [nsig |-> 12, PI |-> {1, 2, 3, 4, 5, 6}, PO |-> {10, 11, 12},
                 cells |-> << Cell("$_XOR_", <<1, 2>>, 7),
                              Cell("$_XOR_", <<7, 3>>, 8),
                              Cell("$_XOR_", <<8, 4>>, 9),
                              Cell("$_XOR_", <<9, 5>>, 10),
                              Cell("$_MUX_", <<10, 1, 6>>, 11),
                              Cell("$_MUX_", <<10, 2, 6>>, 12) >>]

Modules == << ModAnd, ModXorChain, ModShared, ModDualLegal, ModDualIllegal,
              ModCycle, ModWide, ModSeq, ModDualSwap, ModDualFive, ModInvChain,
              ModDualPair, ModInvTap, ModCycleTail, ModDualTwice >>

M == Modules[module]
Sigs == 1..M.nsig
Cells == DOMAIN M.cells

\* cell->type.begins_with("$_")
IsComb(c) == M.cells[c].type \in {"$_AND_", "$_OR_", "$_XOR_", "$_NOT_", "$_MUX_"}

\* the rank of a signal in the iteration order of a pool or dict
PoolOrders == {"asc", "desc"}
PoolRank == [s \in 0..M.nsig |-> IF poolOrder = "asc" THEN s ELSE M.nsig - s]
SortRank == [s \in 0..M.nsig |-> s]

\* for (x : pool): the elements in iteration order
IterOrder(S) == SeqByRank(S, PoolRank)
\* vector + std::sort
Sorted(S) == SeqByRank(S, SortRank)

-----------------------------------------------------------------------------
(* GraphUtils *)

\* bit2driver as built by buildGraphData: the last cell that lists the bit
\* as its output; 0 is nullptr
getDriver(s) ==
    IF \E c \in Cells : M.cells[c].out = s
    THEN CHOOSE c \in Cells : M.cells[c].out = s /\ \A d \in Cells : M.cells[d].out = s => d <= c
    ELSE 0

getCellInputs(c) == M.cells[c].ins
getCellOutput(c) == M.cells[c].out

\* bit2reader[s]: one entry per input connection that carries s
RECURSIVE ReadersFrom(_, _)
ReadersFrom(s, c) ==
    IF c > Len(M.cells) THEN <<>>
    ELSE [k \in 1..Cardinality({i \in DOMAIN M.cells[c].ins : M.cells[c].ins[i] = s}) |-> c]
         \o ReadersFrom(s, c + 1)
getReaders(s) == ReadersFrom(s, 1)

\* the bits driven by a combinational gate
CombDriven == {s \in Sigs : getDriver(s) # 0 /\ IsComb(getDriver(s))}

\* the in-degree counting every driven input, whatever the type of its driver
InDegreeAnyDriver(s) ==
    LET ins == getCellInputs(getDriver(s))
    IN Cardinality({i \in DOMAIN ins : getDriver(ins[i]) # 0})

\* in-degree of computeTopologicalOrder: inputs driven by a combinational gate
InDegree(s) ==
    LET ins == getCellInputs(getDriver(s))
    IN Cardinality({i \in DOMAIN ins : ins[i] \in CombDriven})

\* one pass over the readers of the popped bit (graph_utils.cc:166-179)
RECURSIVE KahnReaders(_, _, _, _)
KahnReaders(rd, i, deg0, queue0) ==
    With(<<deg0, queue0>>, LAMBDA a :
        LET deg == a[1]
            queue == a[2]
        IN IF i > Len(rd) THEN [deg |-> deg, queue |-> queue]
           ELSE IF ~IsComb(rd[i]) THEN KahnReaders(rd, i + 1, deg, queue)
           ELSE LET output == getCellOutput(rd[i]) IN
                IF output \in DOMAIN deg
                THEN KahnReaders(rd, i + 1, [deg EXCEPT ![output] = @ - 1],
                                 IF deg[output] - 1 = 0 THEN Append(queue, output) ELSE queue)
                ELSE KahnReaders(rd, i + 1, deg, queue))

RECURSIVE KahnLoop(_, _, _)
KahnLoop(queue0, deg0, order0) ==
    With(<<queue0, deg0, order0>>, LAMBDA a :
        LET queue == a[1]
            deg == a[2]
            order == a[3]
        IN IF queue = <<>> THEN order
           ELSE With(KahnReaders(getReaders(Head(queue)), 1, deg, Tail(queue)),
                     LAMBDA r : KahnLoop(r.queue, r.deg, Append(order, Head(queue)))))

\* the test before log_warning (graph_utils.cc:183-193)
LoopWarning(order) == Len(order) # Cardinality(CombDriven)

computeTopologicalOrder ==
    LET in_degree == Eager([s \in CombDriven |-> InDegree(s)])
        start == SelectSeq(IterOrder(CombDriven), LAMBDA s : in_degree[s] = 0)
    IN KahnLoop(start, in_degree, <<>>)

\* bfsTraverse: the bits handed to the visitor, in visiting order
RECURSIVE BfsPush(_, _, _, _)
BfsPush(rd, i, queue0, seen0) ==
    With(<<queue0, seen0>>, LAMBDA a :
        LET queue == a[1]
            seen == a[2]
            output == getCellOutput(rd[i])
        IN IF i > Len(rd) THEN [queue |-> queue, seen |-> seen]
           ELSE IF output # 0 /\ output \notin seen
                THEN BfsPush(rd, i + 1, Append(queue, output), seen \cup {output})
                ELSE BfsPush(rd, i + 1, queue, seen))

RECURSIVE BfsLoop(_, _, _)
BfsLoop(queue0, seen0, order0) ==
    With(<<queue0, seen0, order0>>, LAMBDA a :
        LET queue == a[1]
            seen == a[2]
            order == a[3]
        IN IF queue = <<>> THEN order
           ELSE With(BfsPush(getReaders(Head(queue)), 1, Tail(queue), seen),
                     LAMBDA r : BfsLoop(r.queue, r.seen, Append(order, Head(queue)))))

bfsTraverse(start_signals) == BfsLoop(IterOrder(start_signals), start_signals, <<>>)

-----------------------------------------------------------------------------
(* TimingAnalyzer *)

RECURSIVE ArrivalLoop(_, _, _)
ArrivalLoop(order, i, at0) ==
    With(at0, LAMBDA at :
        IF i > Len(order) THEN at
        ELSE LET ins == getCellInputs(getDriver(order[i]))
                 known == {ins[k] : k \in {j \in DOMAIN ins : ins[j] \in DOMAIN at}}
                 max_input_at == IF known = {} THEN 0
                                 ELSE CHOOSE v \in {at[x] : x \in known} :
                                          \A x \in known : at[x] <= v
             IN ArrivalLoop(order, i + 1, Put(at, order[i], max_input_at + 1)))

\* computeArrivalTimes, given the topological order
computeArrivalTimes(order) == ArrivalLoop(order, 1, [s \in M.PI |-> 0])

computeCriticalDepth(at) ==
    LET gates == {s \in DOMAIN at : s \notin M.PI}
    IN IF gates = {} THEN 0
       ELSE CHOOSE v \in {at[s] : s \in gates} : \A s \in gates : at[s] <= v

\* the loop over the inputs of one driver in computeRequiredTimes
RECURSIVE RequiredInputs(_, _, _, _)
RequiredInputs(ins, i, input_rt, rt0) ==
    With(rt0, LAMBDA rt :
        IF i > Len(ins) THEN rt
        ELSE RequiredInputs(ins, i + 1, input_rt,
                 Put(rt, ins[i], IF ins[i] \in DOMAIN rt THEN Min(rt[ins[i]], input_rt)
                                 ELSE input_rt)))

RECURSIVE RequiredLoop(_, _, _)
RequiredLoop(order, i, rt0) ==
    With(rt0, LAMBDA rt :
        IF i < 1 THEN rt
        ELSE IF getDriver(order[i]) = 0 \/ order[i] \notin DOMAIN rt
             THEN RequiredLoop(order, i - 1, rt)
             ELSE RequiredLoop(order, i - 1,
                      RequiredInputs(getCellInputs(getDriver(order[i])), 1,
                                     rt[order[i]] - 1, rt)))

\* computeRequiredTimes(target_depth), along the reverse topological order
computeRequiredTimes(order, target_depth) ==
    RequiredLoop(order, Len(order), [s \in M.PO |-> target_depth])

getDepth(s) == IF s \notin DOMAIN arrival_time THEN 0 ELSE arrival_time[s]

getCutDepth(inputs) ==
    LET max_depth == IF inputs = {} THEN 0
                     ELSE CHOOSE v \in {getDepth(x) : x \in inputs} :
                              \A x \in inputs : getDepth(x) <= v
    IN Max(0, max_depth) + 1

-----------------------------------------------------------------------------
(* MappingContext.  A SingleCut is [inputs, output]; current_mapping is a  *)
(* dict from output bit to SingleCut.  ctx carries the two dicts the area  *)
(* computation reads: ctx.cm = current_mapping, ctx.fr = fanout_refs.      *)

SingleCut(inputs, output) == [inputs |-> inputs, output |-> output]

getFanoutRefs(fr, s) == Get(fr, s, 0)

\* getExactAreaRecursive: the area and the visited pool after the call
RECURSIVE getExactAreaRecursive(_, _, _)
RECURSIVE ExactAreaInputs(_, _, _, _, _)
ExactAreaInputs(ctx, ins, i, area0, vis0) ==
    With(<<area0, vis0>>, LAMBDA a :
        IF i > Len(ins) THEN [area |-> a[1], visited |-> a[2]]
        ELSE With(getExactAreaRecursive(ctx, ins[i], a[2]),
                  LAMBDA r : ExactAreaInputs(ctx, ins, i + 1, a[1] + r.area, r.visited)))

getExactAreaRecursive(ctx, signal, vis0) ==
    With(vis0, LAMBDA vis :
        IF signal \in vis THEN [area |-> 0, visited |-> vis]
        ELSE IF signal \notin DOMAIN ctx.cm
             THEN [area |-> 0, visited |-> vis \cup {signal}]
             ELSE IF signal \in M.PO \/ getFanoutRefs(ctx.fr, signal) > 1
                  THEN [area |-> 1, visited |-> vis \cup {signal}]
                  ELSE ExactAreaInputs(ctx, IterOrder(ctx.cm[signal].inputs), 1, 0,
                                       vis \cup {signal}))

\* the value getExactArea computes on a cache miss
ExactAreaUncached(ctx, signal) == getExactAreaRecursive(ctx, signal, {}).area

\* recoverReferences: the visitor applied along bfsTraverse from the outputs
RECURSIVE RecoverVisit(_, _, _, _, _)
RecoverVisit(mapping, order, i, fr0, us0) ==
    With(<<fr0, us0>>, LAMBDA a :
        LET fr == a[1]
            us == a[2]
            signal == order[i]
        IN IF i > Len(order) THEN [fanout_refs |-> fr, used |-> us]
           ELSE RecoverVisit(mapping, order, i + 1,
                    IF signal \in DOMAIN mapping
                    THEN Eager([x \in (DOMAIN fr) \cup mapping[signal].inputs |->
                             Get(fr, x, 0) + IF x \in mapping[signal].inputs THEN 1 ELSE 0])
                    ELSE fr,
                    Put(us, signal, TRUE)))

recoverReferences(mapping) == RecoverVisit(mapping, bfsTraverse(M.PO), 1, <<>>, <<>>)

\* dereference: fanout_refs, used and area_delta after the call
RECURSIVE dereference(_, _, _, _)
RECURSIVE DerefInputs(_, _, _, _, _, _)
DerefInputs(cm, ins, i, fr0, us0, delta0) ==
    With(<<fr0, us0, delta0>>, LAMBDA a :
        LET fr == a[1]
            us == a[2]
            delta == a[3]
        IN IF i > Len(ins) THEN [fanout_refs |-> fr, used |-> us, area_delta |-> delta]
           ELSE IF ins[i] \in DOMAIN fr
                THEN With([fr EXCEPT ![ins[i]] = @ - 1], LAMBDA fr2 :
                        IF fr2[ins[i]] = 0 /\ ins[i] \in DOMAIN cm
                        THEN With(dereference(cm, ins[i], fr2, us), LAMBDA r :
                                DerefInputs(cm, ins, i + 1, r.fanout_refs, r.used,
                                            delta + r.area_delta))
                        ELSE DerefInputs(cm, ins, i + 1, fr2, us, delta))
                ELSE DerefInputs(cm, ins, i + 1, fr, us, delta))

dereference(cm, signal, fr, us) ==
    IF signal \notin DOMAIN cm THEN [fanout_refs |-> fr, used |-> us, area_delta |-> 0]
    ELSE With(DerefInputs(cm, IterOrder(cm[signal].inputs), 1, fr, us, 0), LAMBDA r :
            [fanout_refs |-> r.fanout_refs,
             used |-> Put(r.used, signal, FALSE),
             area_delta |-> r.area_delta - 1])

\* reference: fanout_refs and used after the call
RECURSIVE reference(_, _, _, _)
RECURSIVE RefInputs(_, _, _, _, _)
RefInputs(cm, ins, i, fr0, us0) ==
    With(<<fr0, us0>>, LAMBDA a :
        LET fr == a[1]
            us == a[2]
        IN IF i > Len(ins) THEN [fanout_refs |-> fr, used |-> us]
           ELSE With(Put(fr, ins[i], Get(fr, ins[i], 0) + 1), LAMBDA fr2 :
                   IF fr2[ins[i]] = 1 /\ ins[i] \in DOMAIN cm
                   THEN With(reference(cm, ins[i], fr2, us), LAMBDA r :
                           RefInputs(cm, ins, i + 1, r.fanout_refs, r.used))
                   ELSE RefInputs(cm, ins, i + 1, fr2, us)))

reference(cm, signal, fr, us) ==
    IF signal \notin DOMAIN cm THEN [fanout_refs |-> fr, used |-> us]
    ELSE With(RefInputs(cm, IterOrder(cm[signal].inputs), 1, fr, us), LAMBDA r :
            [fanout_refs |-> r.fanout_refs, used |-> Put(r.used, signal, TRUE)])

-----------------------------------------------------------------------------
(* HeuristicEvaluator.  Area flow is the fraction num/den of two integers. *)

Modes == {"DEPTH", "AREA_FLOW", "EXACT_AREA"}

computeDepth(cut) == getCutDepth(cut.inputs)

computeAreaFlow(ctx, cut) ==
    [num |-> SumOver([x \in cut.inputs |-> ExactAreaUncached(ctx, x)], cut.inputs) + 1,
     den |-> Max(1, getFanoutRefs(ctx.fr, cut.output))]

computeArea(ctx, cut) == ExactAreaUncached(ctx, cut.output)

FracLess(a, b) == a.num * b.den < b.num * a.den

compareByDepth(ctx, a, b) ==
    IF computeDepth(a) # computeDepth(b) THEN computeDepth(a) < computeDepth(b)
    ELSE FracLess(computeAreaFlow(ctx, a), computeAreaFlow(ctx, b))

\* std::abs(af_a - af_b) > 1e-6, cleared of denominators
compareByAreaFlow(ctx, a, b) ==
    LET af_a == computeAreaFlow(ctx, a)
        af_b == computeAreaFlow(ctx, b)
    IN IF Abs(af_a.num * af_b.den - af_b.num * af_a.den) * 1000000 > af_a.den * af_b.den
       THEN FracLess(af_a, af_b)
       ELSE computeDepth(a) < computeDepth(b)

compareByExactArea(ctx, a, b) ==
    IF computeArea(ctx, a) # computeArea(ctx, b)
    THEN computeArea(ctx, a) < computeArea(ctx, b)
    ELSE computeDepth(a) < computeDepth(b)

compareSingleCuts(ctx, mode, a, b) ==
    CASE mode = "DEPTH" -> compareByDepth(ctx, a, b)
      [] mode = "AREA_FLOW" -> compareByAreaFlow(ctx, a, b)
      [] mode = "EXACT_AREA" -> compareByExactArea(ctx, a, b)
      [] OTHER -> FALSE

\* insertion at the upper bound of c in a sequence ordered by the comparator:
\* multiset::insert, and one step of the sort of selectPriorityCuts
InsertCut(ctx, mode, seq0, c) ==
    With(seq0, LAMBDA seq :
    LET after == {i \in 1..Len(seq) : compareSingleCuts(ctx, mode, c, seq[i])}
        p == IF after = {} THEN Len(seq) + 1
             ELSE CHOOSE i \in after : \A j \in after : i <= j
    IN SubSeq(seq, 1, p - 1) \o <<c>> \o SubSeq(seq, p, Len(seq)))

RECURSIVE SortCuts(_, _, _, _, _)
SortCuts(ctx, mode, seq, i, acc0) ==
    With(acc0, LAMBDA acc :
        IF i > Len(seq) THEN acc
        ELSE SortCuts(ctx, mode, seq, i + 1, InsertCut(ctx, mode, acc, seq[i])))

-----------------------------------------------------------------------------
(* CutManager.  A Cut is a set of bits; priority_cuts maps a bit to the    *)
(* sequence of its retained SingleCuts, best first.                        *)

getPriorityCuts(pcuts, s) == Get(pcuts, s, <<>>)

getBestCut(pcuts, s) ==
    IF s \in DOMAIN pcuts /\ pcuts[s] # <<>> THEN pcuts[s][1]
    ELSE SingleCut({s}, s)

\* the input sets of the priority cuts of x, or {x} when it has none
CutFamily(pcuts, x) ==
    IF getPriorityCuts(pcuts, x) = <<>> THEN {{x}}
    ELSE {sc.inputs : sc \in Range(getPriorityCuts(pcuts, x))}

\* the Cartesian merge with unions of K inputs discarded as well
MergeStepBelowK(merged_so_far, current_input_cuts, K) ==
    {m \in {cut1 \cup cut2 : cut1 \in merged_so_far, cut2 \in current_input_cuts} :
        Cardinality(m) < K}

\* the Cartesian merge of cut_manager.cc:165-173, unions above K discarded
MergeStep(merged_so_far, current_input_cuts, K) ==
    {m \in {cut1 \cup cut2 : cut1 \in merged_so_far, cut2 \in current_input_cuts} :
        Cardinality(m) <= K}

RECURSIVE MergeLoop(_, _, _, _, _)
MergeLoop(pcuts, inputs_vec, i, merged0, K) ==
    With(merged0, LAMBDA merged_so_far :
        IF i > Len(inputs_vec) THEN merged_so_far
        ELSE MergeLoop(pcuts, inputs_vec, i + 1,
                       MergeStep(merged_so_far, CutFamily(pcuts, inputs_vec[i]), K), K))

\* enumerateCutsForGate: the set new_cuts stored in cuts_by_size[output]
enumerateCutsForGate(pcuts, gate, K) ==
    LET inputs_vec == getCellInputs(gate) IN
    IF inputs_vec = <<>> THEN {{getCellOutput(gate)}}
    ELSE IF Len(inputs_vec) = 1 THEN CutFamily(pcuts, inputs_vec[1])
    ELSE MergeLoop(pcuts, inputs_vec, 2, CutFamily(pcuts, inputs_vec[1]), K)

\* the cuts of one size in the order they were pushed to cuts_by_size
RECURSIVE CutsAsSeq(_)
CutsAsSeq(S0) ==
    With(S0, LAMBDA S :
        IF S = {} THEN <<>>
        ELSE With(CHOOSE x \in S : TRUE, LAMBDA c : <<c>> \o CutsAsSeq(S \ {c})))

RECURSIVE CollectBySize(_, _, _, _)
CollectBySize(cuts, signal, k, K) ==
    IF k > K THEN <<>>
    ELSE LET ofSize == CutsAsSeq({c \in cuts : Cardinality(c) = k})
         IN [i \in 1..Len(ofSize) |-> SingleCut(ofSize[i], signal)]
            \o CollectBySize(cuts, signal, k + 1, K)

\* selectPriorityCuts: priority_cuts after the call
selectPriorityCuts(pcuts, signal, cuts, K, P, ctx, mode) ==
    With(CollectBySize(cuts, signal, 1, K), LAMBDA all_cuts :
        IF all_cuts = <<>> THEN pcuts
        ELSE LET num_to_keep == Min(Len(all_cuts), P)
             IN Put(pcuts, signal,
                    SubSeq(SortCuts(ctx, mode, all_cuts, 1, <<>>), 1, num_to_keep)))

\* the loop body with the two parameters K and P exchanged
CutLoopBodySwapped(pcuts, signal, K, P, ctx, mode) ==
    With(IF getDriver(signal) = 0 THEN {{signal}}
         ELSE enumerateCutsForGate(pcuts, getDriver(signal), P),
         LAMBDA cuts : selectPriorityCuts(pcuts, signal, cuts, P, K, ctx, mode))

\* one iteration of the loop of computePriorityCuts (cut_manager.cc:52-70)
CutLoopBody(pcuts, signal, K, P, ctx, mode) ==
    With(IF getDriver(signal) = 0 THEN {{signal}}
         ELSE enumerateCutsForGate(pcuts, getDriver(signal), K),
         LAMBDA cuts : selectPriorityCuts(pcuts, signal, cuts, K, P, ctx, mode))

RECURSIVE CutLoop(_, _, _, _, _, _, _)
CutLoop(pcuts0, order, i, K, P, ctx, mode) ==
    With(pcuts0, LAMBDA pcuts :
        IF i > Len(order) THEN pcuts
        ELSE CutLoop(CutLoopBody(pcuts, order[i], K, P, ctx, mode),
                     order, i + 1, K, P, ctx, mode))

\* computePriorityCuts(K, P): priority_cuts after the call
computePriorityCuts(order, K, P, ctx, mode) == CutLoop(<<>>, order, 1, K, P, ctx, mode)

-----------------------------------------------------------------------------
(* State after construction (DualOutputMapper::createModules) *)

Ctx == [cm |-> current_mapping, fr |-> fanout_refs]

GraphBuilt ==
    /\ topo_order = computeTopologicalOrder
    /\ loop_warning = LoopWarning(topo_order)
    /\ arrival_time = computeArrivalTimes(topo_order)
    /\ critical_depth = computeCriticalDepth(arrival_time)
    /\ required_time = computeRequiredTimes(topo_order, critical_depth)

ContextEmpty ==
    /\ fanout_refs = <<>>
    /\ used = <<>>
    /\ current_mapping = <<>>
    /\ exact_area_cache = <<>>
    /\ cache_iteration = <<>>
    /\ current_iteration = 0
    /\ ret = 0

CutManagerEmpty ==
    /\ max_cut_size = 6
    /\ max_cuts = 20
    /\ priority_cuts = <<>>
    /\ cut_pos = 0

MergerEmpty ==
    /\ Q = <<>>
    /\ visited = {}
    /\ single_mappings = <<>>
    /\ double_mappings = <<>>

\* generateNetlist has not run
NetlistEmpty ==
    /\ luts = {}
    /\ removed = {}

\* no function has been called on its own
NoCall ==
    /\ call_args = <<>>
    /\ call_ret = 0

-----------------------------------------------------------------------------
(* CutManager::computePriorityCuts, one signal of the topological order    *)
(* per step, for the cut sizes and counts of the configuration.            *)

CutSizes == {2, 3, 6}
CutCounts == {1, 20}

CutIdle == cut_pos = 0 \/ cut_pos = Len(topo_order) + 1
CutDone == cut_pos = Len(topo_order) + 1

\* cut_manager.cc:24-31: store the parameters and clear the tables
CutBegin ==
    /\ CutIdle
    /\ \E K \in CutSizes, P \in CutCounts :
          /\ max_cut_size' = K
          /\ max_cuts' = P
    /\ priority_cuts' = <<>>
    /\ cut_pos' = 1
    /\ UNCHANGED <<graphVars, timingVars, current_mode, ctxVars, mergerVars, ctlVars>>
    /\ UNCHANGED <<netVars, callVars>>

\* cut_manager.cc:52-70: enumerate and select for the next signal
CutStep ==
    /\ cut_pos \in 1..Len(topo_order)
    /\ priority_cuts' = CutLoopBody(priority_cuts, topo_order[cut_pos],
                                    max_cut_size, max_cuts, Ctx, current_mode)
    /\ cut_pos' = cut_pos + 1
    /\ UNCHANGED <<max_cut_size, max_cuts>>
    /\ UNCHANGED <<graphVars, timingVars, current_mode, ctxVars, mergerVars, ctlVars>>
    /\ UNCHANGED <<netVars, callVars>>

InitCut ==
    /\ module \in DOMAIN Modules
    /\ poolOrder \in PoolOrders
    /\ GraphBuilt
    /\ current_mode \in Modes
    /\ CutManagerEmpty
    /\ ContextEmpty
    /\ enable_double_output = FALSE
    /\ MergerEmpty
    /\ NetlistEmpty
    /\ NoCall
    /\ pc = "cuts" /\ pass = "none" /\ iter = 0 /\ prev_area = 0 /\ lut_count = 0

NextCut == CutBegin \/ CutStep

SpecCut == InitCut /\ [][NextCut]_vars

\* computePriorityCuts stands before a signal that a gate drives
AtGate ==
    /\ cut_pos \in 1..Len(topo_order)
    /\ getDriver(topo_order[cut_pos]) # 0
    /\ getCellInputs(getDriver(topo_order[cut_pos])) # <<>>

\* every union of one cut per family, nothing discarded on the way
RECURSIVE UnionsOfChoices(_, _)
UnionsOfChoices(families, i) ==
    IF i > Len(families) THEN {{}}
    ELSE With(UnionsOfChoices(families, i + 1), LAMBDA rest :
            {c \cup u : c \in families[i], u \in rest})

\* the fan-ins of a gate in every order
FanInOrders(inputs_vec) ==
    {p \in [DOMAIN inputs_vec -> DOMAIN inputs_vec] :
        \A i, j \in DOMAIN inputs_vec : i # j => p[i] # p[j]}

\* C26: for a gate with fan-ins x0..x(m-1) the cut family enumerated for its
\* output is the set of all unions c0 \cup ... \cup c(m-1) of size <= K with
\* ci from the cut family of xi; pruning against the running accumulator
\* loses no such union, and the family does not depend on the order in which
\* the fan-ins are combined.
CutFamilyIsAllUnions ==
    AtGate =>
        LET gate == getDriver(topo_order[cut_pos])
            inputs_vec == getCellInputs(gate)
            K == max_cut_size
            families == [i \in DOMAIN inputs_vec |-> CutFamily(priority_cuts, inputs_vec[i])]
        IN With(enumerateCutsForGate(priority_cuts, gate, K), LAMBDA new_cuts :
              /\ new_cuts = {u \in UnionsOfChoices(families, 1) : Cardinality(u) <= K}
              /\ \A p \in FanInOrders(inputs_vec) :
                    LET vec == [i \in DOMAIN inputs_vec |-> inputs_vec[p[i]]]
                    IN MergeLoop(priority_cuts, vec, 2,
                                 CutFamily(priority_cuts, vec[1]), K) = new_cuts)

\* a gate with three fan-ins is enumerated whose fan-ins have cut families of
\* their own, and the union of one cut of each has exactly K inputs and is kept
CutFamilyIsAllUnionsWitness ==
    /\ AtGate
    /\ LET gate == getDriver(topo_order[cut_pos])
           inputs_vec == getCellInputs(gate)
       IN /\ Len(inputs_vec) = 3
          /\ \E x \in Range(inputs_vec) : getPriorityCuts(priority_cuts, x) # <<>>
          /\ \E u \in enumerateCutsForGate(priority_cuts, gate, max_cut_size) :
                /\ Cardinality(u) = max_cut_size
                /\ \A x \in Range(inputs_vec) : CutFamily(priority_cuts, x) # {u}

\* the module has no combinational cycle: every gate output is ordered
Acyclic == Len(topo_order) = Cardinality(CombDriven)

\* C7: after computePriorityCuts(K, P) every signal keeps at most P priority
\* cuts, and every retained cut has at least 1 and at most K inputs.
PriorityCutBound ==
    CutDone =>
        \A s \in DOMAIN priority_cuts :
            /\ Len(priority_cuts[s]) <= max_cuts
            /\ \A i \in DOMAIN priority_cuts[s] :
                  /\ Cardinality(priority_cuts[s][i].inputs) >= 1
                  /\ Cardinality(priority_cuts[s][i].inputs) <= max_cut_size

\* a finished enumeration in which some signal keeps exactly P cuts, one of
\* them with exactly K inputs
PriorityCutBoundWitness ==
    /\ CutDone
    /\ \E s \in DOMAIN priority_cuts :
          /\ Len(priority_cuts[s]) = max_cuts
          /\ \E i \in DOMAIN priority_cuts[s] :
                Cardinality(priority_cuts[s][i].inputs) = max_cut_size

\* C8: after computePriorityCuts(K, P) on an acyclic module every signal of
\* the topological order that a combinational gate drives has at least one
\* priority cut, with between 1 and K inputs.
EveryGateHasCut ==
    (CutDone /\ Acyclic) =>
        \A s \in Range(topo_order) :
            s \in CombDriven =>
                /\ getPriorityCuts(priority_cuts, s) # <<>>
                /\ \E i \in DOMAIN priority_cuts[s] :
                      /\ Cardinality(priority_cuts[s][i].inputs) >= 1
                      /\ Cardinality(priority_cuts[s][i].inputs) <= max_cut_size

\* C9: for every signal s driven by a combinational gate, no priority cut of
\* s contains s, and the cut returned by getBestCut(s) does not contain s
\* (stated for the modules without a combinational cycle).
NoSelfInput ==
    (CutDone /\ Acyclic) =>
        \A s \in CombDriven :
            /\ \A i \in DOMAIN getPriorityCuts(priority_cuts, s) :
                  s \notin priority_cuts[s][i].inputs
            /\ s \notin getBestCut(priority_cuts, s).inputs

-----------------------------------------------------------------------------
(* MappingContext driven directly: any interleaving of startNewIteration,  *)
(* recoverReferences, getExactArea, reference and dereference.             *)

MaxIteration == 1
MaxRefs == 2

\* the mappings handed to recoverReferences: one LUT per gate over the
\* gate's own fan-ins, and one LUT per gate over its best cut for K=6, P=20
GateMapping ==
    [s \in CombDriven |-> SingleCut(Range(getCellInputs(getDriver(s))), s)]

BestCutMapping ==
    LET pcuts == computePriorityCuts(topo_order, 6, 20, [cm |-> <<>>, fr |-> <<>>], "DEPTH")
    IN [s \in CombDriven |-> getBestCut(pcuts, s)]

Mappings == {GateMapping, BestCutMapping}

\* mapping_context.h:42-45
StartNewIteration ==
    /\ current_iteration < MaxIteration
    /\ current_iteration' = current_iteration + 1
    /\ pc' = "ctx"
    /\ UNCHANGED <<fanout_refs, used, current_mapping, exact_area_cache, cache_iteration, ret>>
    /\ UNCHANGED <<graphVars, timingVars, current_mode, cutVars, mergerVars, pass, iter, prev_area, lut_count>>
    /\ UNCHANGED <<netVars, callVars>>

\* mapping_context.cc:117-154
RecoverReferences ==
    /\ \E m \in Mappings :
          /\ current_mapping' = m
          /\ fanout_refs' = recoverReferences(m).fanout_refs
          /\ used' = recoverReferences(m).used
    /\ pc' = "recovered"
    /\ UNCHANGED <<exact_area_cache, cache_iteration, current_iteration, ret>>
    /\ UNCHANGED <<graphVars, timingVars, current_mode, cutVars, mergerVars, pass, iter, prev_area, lut_count>>
    /\ UNCHANGED <<netVars, callVars>>

\* the cache test of getExactArea (mapping_context.cc:46-47)
CacheHit(signal) ==
    /\ signal \in DOMAIN exact_area_cache
    /\ Get(cache_iteration, signal, 0) = current_iteration

\* the value getExactArea(signal) returns in the current state
getExactArea(signal) ==
    IF CacheHit(signal) THEN exact_area_cache[signal]
    ELSE ExactAreaUncached(Ctx, signal)

\* mapping_context.cc:41-62
GetExactArea ==
    /\ \E signal \in Sigs :
          /\ ret' = getExactArea(signal)
          /\ IF CacheHit(signal)
             THEN UNCHANGED <<exact_area_cache, cache_iteration>>
             ELSE /\ exact_area_cache' = Put(exact_area_cache, signal, ExactAreaUncached(Ctx, signal))
                  /\ cache_iteration' = Put(cache_iteration, signal, current_iteration)
    /\ pc' = "ctx"
    /\ UNCHANGED <<fanout_refs, used, current_mapping, current_iteration>>
    /\ UNCHANGED <<graphVars, timingVars, current_mode, cutVars, mergerVars, pass, iter, prev_area, lut_count>>
    /\ UNCHANGED <<netVars, callVars>>

RefsInRange(fr) == \A x \in DOMAIN fr : fr[x] <= MaxRefs /\ fr[x] >= 0 - 1

\* mapping_context.cc:156-187
Dereference ==
    /\ \E signal \in Sigs :
          LET r == dereference(current_mapping, signal, fanout_refs, used) IN
          /\ RefsInRange(r.fanout_refs)
          /\ fanout_refs' = r.fanout_refs
          /\ used' = r.used
          /\ ret' = r.area_delta
    /\ pc' = "ctx"
    /\ UNCHANGED <<current_mapping, exact_area_cache, cache_iteration, current_iteration>>
    /\ UNCHANGED <<graphVars, timingVars, current_mode, cutVars, mergerVars, pass, iter, prev_area, lut_count>>
    /\ UNCHANGED <<netVars, callVars>>

\* mapping_context.cc:189-211
Reference ==
    /\ \E signal \in Sigs :
          LET r == reference(current_mapping, signal, fanout_refs, used) IN
          /\ RefsInRange(r.fanout_refs)
          /\ fanout_refs' = r.fanout_refs
          /\ used' = r.used
    /\ pc' = "ctx"
    /\ UNCHANGED <<current_mapping, exact_area_cache, cache_iteration, current_iteration, ret>>
    /\ UNCHANGED <<graphVars, timingVars, current_mode, cutVars, mergerVars, pass, iter, prev_area, lut_count>>
    /\ UNCHANGED <<netVars, callVars>>

CtxModules == {1, 11, 13}

InitCtx ==
    /\ module \in CtxModules
    /\ poolOrder \in PoolOrders
    /\ GraphBuilt
    /\ current_mode = "DEPTH"
    /\ CutManagerEmpty
    /\ ContextEmpty
    /\ enable_double_output = FALSE
    /\ MergerEmpty
    /\ NetlistEmpty
    /\ NoCall
    /\ pc = "ctx" /\ pass = "none" /\ iter = 0 /\ prev_area = 0 /\ lut_count = 0

NextCtx ==
    \/ StartNewIteration
    \/ RecoverReferences
    \/ GetExactArea
    \/ Dereference
    \/ Reference

SpecCtx == InitCtx /\ [][NextCtx]_vars

\* C27: fanout_refs(x) is a natural number in every reachable context state:
\* after any sequence of recoverReferences, reference and dereference calls
\* no reference count is negative.
RefCountsNatural == \A x \in DOMAIN fanout_refs : fanout_refs[x] >= 0

\* the number of keys of the mapping whose cut reads x
RefCount(m, x) == Cardinality({k \in DOMAIN m : x \in m[k].inputs})

\* C4: immediately after recoverReferences(m), fanout_refs(x) is the number
\* of keys k of m with x in m(k).inputs, for every signal x.
RefCountConsistent ==
    pc = "recovered" =>
        \A x \in Sigs : getFanoutRefs(fanout_refs, x) = RefCount(current_mapping, x)

\* the signals reachable from the primary outputs by stepping from a mapped
\* signal to the inputs of its cut
RECURSIVE ReachableInMapping(_, _)
ReachableInMapping(m, R0) ==
    With(R0, LAMBDA R :
        LET next == R \cup UNION {m[s].inputs : s \in R \cap DOMAIN m}
        IN IF next = R THEN R ELSE ReachableInMapping(m, next))

isUsed(us, s) == s \in DOMAIN us /\ us[s]

\* C5: immediately after recoverReferences(m), used(x) holds exactly for the
\* signals reachable from a primary output through the cut inputs of m.
UsedIsReachable ==
    pc = "recovered" =>
        \A x \in Sigs :
            isUsed(used, x) <=> x \in ReachableInMapping(current_mapping, M.PO)

\* C6: within one iteration getExactArea(s) returns what an uncached
\* recomputation on the current fanout_refs and current_mapping returns.
ExactAreaCacheSound ==
    \A s \in Sigs : getExactArea(s) = ExactAreaUncached(Ctx, s)

\* the exact area as documented: 0 for an unmapped signal; otherwise the
\* areas of the inputs of the cut, every signal counted once, plus 1 when the
\* signal is a primary output or has more than one reference
RECURSIVE DocumentedExactArea(_, _, _)
RECURSIVE DocumentedAreaInputs(_, _, _, _, _)
DocumentedAreaInputs(ctx, ins, i, area0, vis0) ==
    With(<<area0, vis0>>, LAMBDA a :
        IF i > Len(ins) THEN [area |-> a[1], visited |-> a[2]]
        ELSE With(DocumentedExactArea(ctx, ins[i], a[2]),
                  LAMBDA r : DocumentedAreaInputs(ctx, ins, i + 1, a[1] + r.area, r.visited)))

DocumentedExactArea(ctx, signal, vis0) ==
    With(vis0, LAMBDA vis :
        IF signal \in vis THEN [area |-> 0, visited |-> vis]
        ELSE IF signal \notin DOMAIN ctx.cm
             THEN [area |-> 0, visited |-> vis \cup {signal}]
             ELSE With(DocumentedAreaInputs(ctx, IterOrder(ctx.cm[signal].inputs), 1, 0,
                                            vis \cup {signal}),
                       LAMBDA r :
                          [area |-> r.area + IF signal \in M.PO
                                                \/ getFanoutRefs(ctx.fr, signal) > 1
                                             THEN 1 ELSE 0,
                           visited |-> r.visited]))

\* C12: on a cache miss getExactArea(s) returns 0 when s has no mapping, 1
\* plus the exact areas of the inputs of its cut when s is a primary output or
\* fanout_refs(s) > 1, and the exact areas of the inputs alone otherwise, each
\* signal counted once.
ExactAreaAsDocumented ==
    \A s \in Sigs : ExactAreaUncached(Ctx, s) = DocumentedExactArea(Ctx, s, {}).area

-----------------------------------------------------------------------------
(* HeuristicEvaluator called on its own: setMode and compareSingleCuts on  *)
(* a context whose reference counts are those of a large design.           *)

CmpModules == {2}

\* the reference counts of the gate outputs: a signal read by one cut, and
\* signals read by a thousand cuts or a few more
RefValues == {1, 1000, 1001, 1002}

\* the cuts compared: every gate over its own fan-ins and over its best cut
CandidateCuts == {m[s] : m \in Mappings, s \in CombDriven}

\* heuristic_evaluator.h: setMode
SetMode ==
    /\ pc \in {"evaluator", "compared"}
    /\ \E mode \in Modes : current_mode' = mode
    /\ pc' = "evaluator"
    /\ UNCHANGED <<graphVars, timingVars, cutVars, ctxVars, mergerVars>>
    /\ UNCHANGED <<pass, iter, prev_area, lut_count, netVars, callVars>>

\* heuristic_evaluator.cc:43-58
CompareSingleCuts ==
    /\ pc \in {"evaluator", "compared"}
    /\ \E a, b \in CandidateCuts :
          /\ call_args' = [a |-> a, b |-> b]
          /\ call_ret' = compareSingleCuts(Ctx, current_mode, a, b)
    /\ pc' = "compared"
    /\ UNCHANGED <<graphVars, timingVars, current_mode, cutVars, ctxVars, mergerVars>>
    /\ UNCHANGED <<pass, iter, prev_area, lut_count, netVars>>

InitCmp ==
    /\ module \in CmpModules
    /\ poolOrder = "asc"
    /\ GraphBuilt
    /\ current_mode = "DEPTH"
    /\ CutManagerEmpty
    /\ current_mapping \in {<<>>, GateMapping}
    /\ fanout_refs \in [CombDriven -> RefValues]
    /\ used = <<>>
    /\ exact_area_cache = <<>>
    /\ cache_iteration = <<>>
    /\ current_iteration = 0
    /\ ret = 0
    /\ enable_double_output = FALSE
    /\ MergerEmpty
    /\ NetlistEmpty
    /\ NoCall
    /\ pc = "evaluator" /\ pass = "none" /\ iter = 0 /\ prev_area = 0 /\ lut_count = 0

NextCmp == SetMode \/ CompareSingleCuts

SpecCmp == InitCmp /\ [][NextCmp]_vars

-----------------------------------------------------------------------------
(* TruthTableComputer.  A Const is the sequence of its bits, bit k of the  *)
(* table at index k + 1.  A bit is 0 or 1; 2 marks a bit that ConstEval    *)
(* could not evaluate, on which computeLUTInit calls log_error.            *)

IndexOf(seq, x) == CHOOSE i \in DOMAIN seq : seq[i] = x

\* ConstEval::eval of one bit with the bits of inputs stopped and set to the
\* combination combo; fuel bounds the descent by the number of bits
RECURSIVE EvalSig(_, _, _, _)
EvalSig(s, inputs, combo, fuel) ==
    IF s \in Range(inputs) THEN Bit(combo, IndexOf(inputs, s) - 1)
    ELSE IF fuel = 0 \/ getDriver(s) = 0 THEN 2
    ELSE IF ~IsComb(getDriver(s)) THEN 2
    ELSE LET c == M.cells[getDriver(s)] IN
         IF c.type = "$_MUX_"
         THEN With(EvalSig(c.ins[3], inputs, combo, fuel - 1), LAMBDA sel :
                 IF sel = 2 THEN 2
                 ELSE EvalSig(c.ins[IF sel = 1 THEN 2 ELSE 1], inputs, combo, fuel - 1))
         ELSE IF c.type = "$_NOT_"
         THEN With(EvalSig(c.ins[1], inputs, combo, fuel - 1), LAMBDA a :
                 IF a = 2 THEN 2 ELSE 1 - a)
         ELSE With(<<EvalSig(c.ins[1], inputs, combo, fuel - 1),
                     EvalSig(c.ins[2], inputs, combo, fuel - 1)>>, LAMBDA v :
                 IF v[1] = 2 \/ v[2] = 2 THEN 2
                 ELSE IF c.type = "$_AND_" THEN v[1] * v[2]
                 ELSE IF c.type = "$_OR_" THEN Max(v[1], v[2])
                 ELSE (v[1] + v[2]) % 2)

\* computeLUTInit(output, inputs): inputs[i] is bit i - 1 of the combination
computeLUTInit(output, inputs) ==
    Eager([k \in 1..Pow2(Len(inputs)) |-> EvalSig(output, inputs, k - 1, M.nsig)])

\* the log_error branch of computeLUTInit was taken
LUTInitFailed(init) == 2 \in Range(init)

\* combo ^ (1 << i)
FlipBit(combo, i) == IF Bit(combo, i) = 1 THEN combo - Pow2(i) ELSE combo + Pow2(i)

\* the check made for the first don't-care index only
IndependentOfFirstIndex(init, num_inputs, dont_care_indices) ==
    \/ dont_care_indices = <<>>
    \/ \A combo \in 0..(Pow2(num_inputs) - 1) :
          LET flipped_combo == FlipBit(combo, dont_care_indices[1])
          IN \/ flipped_combo < combo
             \/ init[combo + 1] = init[flipped_combo + 1]

\* isIndependentOfInputs(init, num_inputs, dont_care_indices)
isIndependentOfInputs(init, num_inputs, dont_care_indices) ==
    \/ dont_care_indices = <<>>
    \/ \A combo \in 0..(Pow2(num_inputs) - 1) :
          \A k \in DOMAIN dont_care_indices :
              LET flipped_combo == FlipBit(combo, dont_care_indices[k])
              IN \/ flipped_combo < combo
                 \/ init[combo + 1] = init[flipped_combo + 1]

\* the loop over i with proj_bit advanced at the fixed inputs as well
RECURSIVE FullComboEveryBit(_, _, _, _, _, _)
FullComboEveryBit(proj_combo, num_inputs, fixed_inputs, i, proj_bit, full_combo) ==
    IF i >= num_inputs THEN full_combo
    ELSE IF i \in DOMAIN fixed_inputs
         THEN FullComboEveryBit(proj_combo, num_inputs, fixed_inputs, i + 1, proj_bit + 1,
                                IF fixed_inputs[i] THEN full_combo + Pow2(i) ELSE full_combo)
         ELSE FullComboEveryBit(proj_combo, num_inputs, fixed_inputs, i + 1, proj_bit + 1,
                                IF Bit(proj_combo, proj_bit) = 1 THEN full_combo + Pow2(i)
                                ELSE full_combo)

\* the loop over i of projectTruthTable: full_combo for one proj_combo
RECURSIVE FullCombo(_, _, _, _, _, _)
FullCombo(proj_combo, num_inputs, fixed_inputs, i, proj_bit, full_combo) ==
    IF i >= num_inputs THEN full_combo
    ELSE IF i \in DOMAIN fixed_inputs
         THEN FullCombo(proj_combo, num_inputs, fixed_inputs, i + 1, proj_bit,
                        IF fixed_inputs[i] THEN full_combo + Pow2(i) ELSE full_combo)
         ELSE FullCombo(proj_combo, num_inputs, fixed_inputs, i + 1, proj_bit + 1,
                        IF Bit(proj_combo, proj_bit) = 1 THEN full_combo + Pow2(i)
                        ELSE full_combo)

\* projectTruthTable(init, num_inputs, fixed_inputs); fixed_inputs is a dict
\* from input index to the value it is fixed to
projectTruthTable(init, num_inputs, fixed_inputs) ==
    LET remaining_inputs == num_inputs - Cardinality(DOMAIN fixed_inputs)
    IN Eager([k \in 1..Pow2(remaining_inputs) |->
                 init[FullCombo(k - 1, num_inputs, fixed_inputs, 0, 0, 0) + 1]])

-----------------------------------------------------------------------------
(* TruthTableComputer called on its own: isIndependentOfInputs and         *)
(* projectTruthTable on every truth table of 1 to 3 inputs.                *)

InputCounts == {1, 2, 3}
MaxDontCare == 2

\* the truth tables of n inputs
Tables(n) == [1..Pow2(n) -> {0, 1}]

\* vector<int> dont_care_indices: indices below n, in any order, repeats allowed
IndexVectors(n) == UNION {[1..len -> 0..(n - 1)] : len \in 0..MaxDontCare}

\* dict<int, bool> fixed_inputs: some of the indices below n, each with a value
FixedDicts(n) == UNION {[S -> BOOLEAN] : S \in SUBSET (0..(n - 1))}

CallIsIndependent ==
    /\ pc \in {"truth", "independent", "projected"}
    /\ \E D \in IndexVectors(call_args.num_inputs) :
          /\ call_args' = [call_args EXCEPT !.dont_care_indices = D, !.fixed_inputs = <<>>]
          /\ call_ret' = isIndependentOfInputs(call_args.init, call_args.num_inputs, D)
    /\ pc' = "independent"
    /\ UNCHANGED <<graphVars, timingVars, current_mode, cutVars, ctxVars, mergerVars>>
    /\ UNCHANGED <<pass, iter, prev_area, lut_count, netVars>>

CallProject ==
    /\ pc \in {"truth", "independent", "projected"}
    /\ \E fixed \in FixedDicts(call_args.num_inputs) :
          /\ call_args' = [call_args EXCEPT !.fixed_inputs = fixed, !.dont_care_indices = <<>>]
          /\ call_ret' = projectTruthTable(call_args.init, call_args.num_inputs, fixed)
    /\ pc' = "projected"
    /\ UNCHANGED <<graphVars, timingVars, current_mode, cutVars, ctxVars, mergerVars>>
    /\ UNCHANGED <<pass, iter, prev_area, lut_count, netVars>>

InitTruth ==
    /\ module = 1
    /\ poolOrder = "asc"
    /\ GraphBuilt
    /\ current_mode = "DEPTH"
    /\ CutManagerEmpty
    /\ ContextEmpty
    /\ enable_double_output = FALSE
    /\ MergerEmpty
    /\ NetlistEmpty
    /\ \E n \in InputCounts :
          call_args \in [init : Tables(n), num_inputs : {n},
                         dont_care_indices : {<<>>}, fixed_inputs : {<<>>}]
    /\ call_ret = 0
    /\ pc = "truth" /\ pass = "none" /\ iter = 0 /\ prev_area = 0 /\ lut_count = 0

NextTruth == CallIsIndependent \/ CallProject

SpecTruth == InitTruth /\ [][NextTruth]_vars

\* C17: isIndependentOfInputs(Init, n, D) returns true if and only if
\* Init[c] = Init[c XOR 2^d] for every combination c in 0..2^n-1 and every
\* index d of D; an empty D gives true.
IndependentIffAllFlipsAgree ==
    pc = "independent" =>
        (call_ret <=>
            \A c \in 0..(Pow2(call_args.num_inputs) - 1) :
                \A d \in Range(call_args.dont_care_indices) :
                    call_args.init[c + 1] = call_args.init[FlipBit(c, d) + 1])

\* a call that returns true for a table that is not constant and a D that is
\* not empty
IndependentWitness ==
    /\ pc = "independent"
    /\ call_ret = TRUE
    /\ call_args.dont_care_indices # <<>>
    /\ \E i, j \in DOMAIN call_args.init : call_args.init[i] # call_args.init[j]

\* the positions of num_inputs that the dict does not fix, in increasing order
FreePositions(num_inputs, fixed_inputs) ==
    SeqByRank((0..(num_inputs - 1)) \ DOMAIN fixed_inputs, IndexRank)

\* the full combinations that carry the fixed values on the fixed positions
\* and the bits of p, in increasing order, on the free positions
Spliced(p, num_inputs, fixed_inputs) ==
    LET free == FreePositions(num_inputs, fixed_inputs)
    IN {c \in 0..(Pow2(num_inputs) - 1) :
           /\ \A i \in DOMAIN fixed_inputs : Bit(c, i) = IF fixed_inputs[i] THEN 1 ELSE 0
           /\ \A j \in DOMAIN free : Bit(c, free[j]) = Bit(p, j - 1)}

\* C18: projectTruthTable(Init, n, fixed) returns a table of exactly
\* 2^(n - |fixed|) bits whose entry at the projected combination p is Init at
\* the full combination with the bits of p, in increasing order, on the
\* positions that are not fixed and the fixed values on the fixed positions.
ProjectionSplices ==
    pc = "projected" =>
        LET n == call_args.num_inputs
            fixed == call_args.fixed_inputs
            size == Pow2(n - Cardinality(DOMAIN fixed))
        IN /\ Len(call_ret) = size
           /\ \A p \in 0..(size - 1) :
                 \A c \in Spliced(p, n, fixed) : call_ret[p + 1] = call_args.init[c + 1]
           /\ \A p \in 0..(size - 1) : Spliced(p, n, fixed) # {}

\* a projection of a table of three inputs that fixes the middle input to 1
\* and returns a table that is not constant
ProjectionWitness ==
    /\ pc = "projected"
    /\ call_args.num_inputs = 3
    /\ DOMAIN call_args.fixed_inputs = {1}
    /\ call_args.fixed_inputs[1]
    /\ \E i, j \in DOMAIN call_ret : call_ret[i] # call_ret[j]

-----------------------------------------------------------------------------
(* GlobalMerger: the dual-output search.  A DoubleCut is                   *)
(* [inputs, output1, output2, selected_i5]; the default-constructed one    *)
(* has the invalid bit 0 for both outputs.                                 *)

input_count_weight == 1
depth_penalty_weight == 10
area_flow_weight == 5
input_sharing_weight == -2
MAX_CANDIDATES_FOR_VERIFICATION == 5

DoubleCut(inputs, output1, output2, selected_i5) ==
    [inputs |-> inputs, output1 |-> output1, output2 |-> output2,
     selected_i5 |-> selected_i5]

InvalidDoubleCut == DoubleCut({}, 0, 0, 0)

\* a DoubleCut that is never taken as valid
ValidNever(dc) == FALSE

valid(dc) == dc.output1 # 0 /\ dc.output2 # 0

\* checkInputCompatibility without the return on an input of Z5 that Z lacks
CompatibleWithoutSubsetTest(z_remaining, z5_inputs) ==
    LET z_vec == Sorted(z_remaining)
        z5_vec == Sorted(z5_inputs)
        found == {i \in 0..(Len(z5_vec) - 1) : z5_vec[i + 1] \in z_remaining}
    IN With(Eager([i \in found |-> IndexOf(z_vec, z5_vec[i + 1]) - 1]),
            LAMBDA map :
               [ok |-> TRUE,
                z5_to_z_input_map |-> map,
                z_dont_care_indices |->
                   SeqByRank({j \in 0..(Len(z_vec) - 1) :
                                 \A i \in DOMAIN map : map[i] # j}, IndexRank)])

\* checkInputCompatibility: the return value and the two out-parameters, on
\* the sorted vectors of both input sets (indices from 0)
checkInputCompatibility(z_remaining, z5_inputs) ==
    LET z_vec == Sorted(z_remaining)
        z5_vec == Sorted(z5_inputs)
    IN IF ~(z5_inputs \subseteq z_remaining)
       THEN [ok |-> FALSE, z5_to_z_input_map |-> <<>>, z_dont_care_indices |-> <<>>]
       ELSE With(Eager([i \in 0..(Len(z5_vec) - 1) |-> IndexOf(z_vec, z5_vec[i + 1]) - 1]),
                 LAMBDA map :
                    [ok |-> TRUE,
                     z5_to_z_input_map |-> map,
                     z_dont_care_indices |->
                        SeqByRank({j \in 0..(Len(z_vec) - 1) :
                                      \A i \in DOMAIN map : map[i] # j}, IndexRank)])

\* countSuccessors
countSuccessors(signal) == 0

\* computeStructuralScore; every term is a whole number because
\* countSuccessors is 0 and the divisor is max(1, 0)
computeStructuralScore(pcuts, z_output, z5_output, merged_inputs, selected_i5) ==
    LET z_depth == getDepth(z_output)
        z5_depth == getDepth(z5_output)
        merged_depth == getCutDepth(merged_inputs) + 1
        total_successors == countSuccessors(z_output) + countSuccessors(z5_output)
        shared_inputs == Cardinality(getBestCut(pcuts, z_output).inputs
                                     \cap getBestCut(pcuts, z5_output).inputs)
    IN Cardinality(merged_inputs) * input_count_weight
       + (IF merged_depth > z_depth \/ merged_depth > z5_depth
          THEN depth_penalty_weight ELSE 0)
       + (((Cardinality(merged_inputs) + 1) * area_flow_weight) \div Max(1, total_successors))
       + shared_inputs * input_sharing_weight

\* verifyTruthTableConstraint with the tables of a Z of 5 or fewer inputs
\* compared over the length of the table of Z5 only
VerifyWithoutSizeTest(z_init, z5_init, z_num_inputs, z5_num_inputs, z5_to_z_input_map, z_dont_care_indices) ==
    IF z_num_inputs = 6
    THEN IF Len(z_init) # 64 \/ Len(z5_init) # Pow2(z5_num_inputs) THEN FALSE
         ELSE With(SubSeq(z_init, 1, 32), LAMBDA z_lower_half :
                 IF z5_num_inputs < 5
                 THEN /\ isIndependentOfInputs(z_lower_half, 5, z_dont_care_indices)
                      /\ With(projectTruthTable(z_lower_half, 5,
                                  [i \in Range(z_dont_care_indices) |-> FALSE]),
                              LAMBDA z_projected :
                                  /\ Len(z_projected) = Len(z5_init)
                                  /\ \A i \in DOMAIN z_projected : z_projected[i] = z5_init[i])
                 ELSE /\ Len(z_lower_half) = Len(z5_init)
                      /\ \A i \in DOMAIN z_lower_half : z_lower_half[i] = z5_init[i])
    ELSE /\ Len(z_init) >= Len(z5_init)
         /\ \A i \in DOMAIN z5_init : z_init[i] = z5_init[i]

\* verifyTruthTableConstraint
verifyTruthTableConstraint(z_init, z5_init, z_num_inputs, z5_num_inputs, z5_to_z_input_map, z_dont_care_indices) ==
    IF z_num_inputs = 6
    THEN IF Len(z_init) # 64 \/ Len(z5_init) # Pow2(z5_num_inputs) THEN FALSE
         ELSE With(SubSeq(z_init, 1, 32), LAMBDA z_lower_half :
                 IF z5_num_inputs < 5
                 THEN /\ isIndependentOfInputs(z_lower_half, 5, z_dont_care_indices)
                      /\ With(projectTruthTable(z_lower_half, 5,
                                  [i \in Range(z_dont_care_indices) |-> FALSE]),
                              LAMBDA z_projected :
                                  /\ Len(z_projected) = Len(z5_init)
                                  /\ \A i \in DOMAIN z_projected : z_projected[i] = z5_init[i])
                 ELSE /\ Len(z_lower_half) = Len(z5_init)
                      /\ \A i \in DOMAIN z_lower_half : z_lower_half[i] = z5_init[i])
    ELSE /\ Len(z_init) = Len(z5_init)
         /\ \A i \in DOMAIN z_init : z_init[i] = z5_init[i]

\* the body of the two Stage 1 loops for one entry of Q and one potential_i5
MakeCandidate(pcuts, now, now_cut, other, potential_i5) ==
    IF \/ other.output = now
       \/ other.output \in other.inputs
       \/ Cardinality(other.inputs) > 5
       \/ potential_i5 \in other.inputs
    THEN [ok |-> FALSE]
    ELSE With(checkInputCompatibility(now_cut.inputs \ {potential_i5}, other.inputs),
              LAMBDA compat :
                 LET z_remaining == now_cut.inputs \ {potential_i5}
                     merged_inputs == z_remaining \cup other.inputs \cup {potential_i5}
                 IN IF ~compat.ok \/ Cardinality(merged_inputs) > 6 THEN [ok |-> FALSE]
                    ELSE [ok |-> TRUE,
                          z5_output |-> other.output,
                          z5_inputs |-> other.inputs,
                          selected_i5 |-> potential_i5,
                          z_remaining_inputs |-> z_remaining,
                          structural_score |->
                              computeStructuralScore(pcuts, now, other.output,
                                                     merged_inputs, potential_i5),
                          z5_to_z_input_map |-> compat.z5_to_z_input_map,
                          z_dont_care_indices |-> compat.z_dont_care_indices])

\* Stage 1: promising_candidates in the order they are pushed
Stage1Candidates(pcuts, now, now_cut, Qs) ==
    LET ins == IterOrder(now_cut.inputs)
        n == Len(ins)
        slot(k) == MakeCandidate(pcuts, now, now_cut,
                                 Qs[((k - 1) \div n) + 1], ins[((k - 1) % n) + 1])
    IN With(Eager([k \in 1..(Len(Qs) * n) |-> slot(k)]), LAMBDA all :
            SelectSeq(all, LAMBDA c : c.ok))

\* insertion for a sort by descending structural_score
InsertByScoreDescending(seq0, c) ==
    With(seq0, LAMBDA seq :
    LET after == {i \in 1..Len(seq) : c.structural_score > seq[i].structural_score}
        p == IF after = {} THEN Len(seq) + 1
             ELSE CHOOSE i \in after : \A j \in after : i <= j
    IN SubSeq(seq, 1, p - 1) \o <<c>> \o SubSeq(seq, p, Len(seq)))

\* std::sort by structural_score.  It sorts fewer than 16 candidates here, by
\* insertion, so candidates of equal score keep their order
InsertByScore(seq0, c) ==
    With(seq0, LAMBDA seq :
    LET after == {i \in 1..Len(seq) : c.structural_score < seq[i].structural_score}
        p == IF after = {} THEN Len(seq) + 1
             ELSE CHOOSE i \in after : \A j \in after : i <= j
    IN SubSeq(seq, 1, p - 1) \o <<c>> \o SubSeq(seq, p, Len(seq)))

RECURSIVE SortByScore(_, _, _)
SortByScore(seq, i, acc0) ==
    With(acc0, LAMBDA acc :
        IF i > Len(seq) THEN acc
        ELSE SortByScore(seq, i + 1, InsertByScore(acc, seq[i])))

\* Stage 2: the first candidate whose truth tables pass; aborted when
\* computeLUTInit ends in log_error
RECURSIVE Stage2(_, _, _)
Stage2(now, candidates, i) ==
    IF i > Len(candidates) THEN [aborted |-> FALSE, cut |-> InvalidDoubleCut]
    ELSE LET candidate == candidates[i]
             z_input_vec == IterOrder(candidate.z_remaining_inputs)
                            \o <<candidate.selected_i5>>
             z5_input_vec == IterOrder(candidate.z5_inputs)
         IN With(<<computeLUTInit(now, z_input_vec),
                   computeLUTInit(candidate.z5_output, z5_input_vec)>>, LAMBDA init :
                 IF LUTInitFailed(init[1]) \/ LUTInitFailed(init[2])
                 THEN [aborted |-> TRUE, cut |-> InvalidDoubleCut]
                 ELSE IF verifyTruthTableConstraint(init[1], init[2],
                             Len(z_input_vec), Len(z5_input_vec),
                             candidate.z5_to_z_input_map, candidate.z_dont_care_indices)
                 THEN [aborted |-> FALSE,
                       cut |-> DoubleCut(candidate.z_remaining_inputs
                                            \cup candidate.z5_inputs
                                            \cup {candidate.selected_i5},
                                         now, candidate.z5_output, candidate.selected_i5)]
                 ELSE Stage2(now, candidates, i + 1))

\* findBestDoubleCut(now, Q)
findBestDoubleCut(pcuts, now, Qs) ==
    LET now_cut == getBestCut(pcuts, now) IN
    IF Cardinality(now_cut.inputs) < 2 \/ Cardinality(now_cut.inputs) > 6
    THEN [aborted |-> FALSE, cut |-> InvalidDoubleCut]
    ELSE With(Stage1Candidates(pcuts, now, now_cut, Qs), LAMBDA promising_candidates :
            IF promising_candidates = <<>>
            THEN [aborted |-> FALSE, cut |-> InvalidDoubleCut]
            ELSE With(SortByScore(promising_candidates, 1, <<>>), LAMBDA sorted :
                    Stage2(now, SubSeq(sorted, 1,
                                       Min(Len(sorted), MAX_CANDIDATES_FOR_VERIFICATION)), 1)))

-----------------------------------------------------------------------------
(* GlobalMerger::runGlobalMapping.  Q is the multiset as the sequence of   *)
(* its elements in comparator order; Q.begin() is its head.                *)

\* step 1 collecting only the gates that drive a primary output
AllCombOutputsOfOutputs ==
    {getCellOutput(c) : c \in {d \in Cells : IsComb(d) /\ getCellOutput(d) \in M.PO}}

\* step 1: the outputs of the cells whose type begins with "$_"
AllCombOutputs == {getCellOutput(c) : c \in {d \in Cells : IsComb(d)}}

\* find_mappable_driver: the cell, or 0 for nullptr
RECURSIVE find_mappable_driver(_, _)
find_mappable_driver(current_signal, i) ==
    LET driver == getDriver(current_signal) IN
    IF i >= 100 \/ driver = 0 THEN 0
    ELSE IF IsComb(driver) THEN driver
    ELSE IF /\ M.cells[driver].type \in {"GTP_BUF", "GTP_INV", "GTP_OUTBUF", "GTP_INBUF"}
            /\ Len(getCellInputs(driver)) = 1
         THEN find_mappable_driver(getCellInputs(driver)[1], i + 1)
         ELSE 0

\* step 3: the best cuts of the drivers of the primary outputs
RECURSIVE QueueFromOutputs(_, _, _, _, _, _)
QueueFromOutputs(pcuts, ctx, mode, po, i, st0) ==
    With(st0, LAMBDA st :
        IF i > Len(po) THEN st
        ELSE LET mappable_driver == find_mappable_driver(po[i], 0)
                 driver_output == getCellOutput(mappable_driver)
             IN IF mappable_driver # 0 /\ driver_output \notin st.visited
                THEN QueueFromOutputs(pcuts, ctx, mode, po, i + 1,
                        [Q |-> InsertCut(ctx, mode, st.Q, getBestCut(pcuts, driver_output)),
                         visited |-> st.visited \cup {driver_output}])
                ELSE QueueFromOutputs(pcuts, ctx, mode, po, i + 1, st))

\* step 4 and step 6 without the test of visited
RECURSIVE QueueFromGatesUnguarded(_, _, _, _, _, _)
QueueFromGatesUnguarded(pcuts, ctx, mode, bits, i, st0) ==
    With(st0, LAMBDA st :
        IF i > Len(bits) THEN st
        ELSE LET driver == getDriver(bits[i])
             IN IF /\ driver # 0
                   /\ IsComb(driver)
                   /\ getCellOutput(driver) = bits[i]
                THEN QueueFromGatesUnguarded(pcuts, ctx, mode, bits, i + 1,
                        [Q |-> InsertCut(ctx, mode, st.Q, getBestCut(pcuts, bits[i])),
                         visited |-> st.visited \cup {bits[i]}])
                ELSE QueueFromGatesUnguarded(pcuts, ctx, mode, bits, i + 1, st))

\* step 4 and step 6: insert the best cut of every bit of the vector that is
\* not visited and is the output of a combinational gate
RECURSIVE QueueFromGates(_, _, _, _, _, _)
QueueFromGates(pcuts, ctx, mode, bits, i, st0) ==
    With(st0, LAMBDA st :
        IF i > Len(bits) THEN st
        ELSE LET driver == getDriver(bits[i])
             IN IF /\ bits[i] \notin st.visited
                   /\ driver # 0
                   /\ IsComb(driver)
                   /\ getCellOutput(driver) = bits[i]
                THEN QueueFromGates(pcuts, ctx, mode, bits, i + 1,
                        [Q |-> InsertCut(ctx, mode, st.Q, getBestCut(pcuts, bits[i])),
                         visited |-> st.visited \cup {bits[i]}])
                ELSE QueueFromGates(pcuts, ctx, mode, bits, i + 1, st))

\* steps 1-4 of runGlobalMapping: Q and visited at the head of the main loop
InitialQueue(pcuts, ctx, mode) ==
    With(QueueFromOutputs(pcuts, ctx, mode, IterOrder(M.PO), 1, [Q |-> <<>>, visited |-> {}]),
         LAMBDA st : QueueFromGates(pcuts, ctx, mode, IterOrder(AllCombOutputs), 1, st))

\* step 7: single_mappings after the sweep over all_comb_outputs
RECURSIVE CompletionSweep(_, _, _, _, _)
CompletionSweep(pcuts, bits, i, vis, singles0) ==
    With(singles0, LAMBDA singles :
        IF i > Len(bits) THEN singles
        ELSE IF bits[i] \notin vis
             THEN CompletionSweep(pcuts, bits, i + 1, vis \cup {bits[i]},
                                  Put(singles, bits[i], getBestCut(pcuts, bits[i])))
             ELSE CompletionSweep(pcuts, bits, i + 1, vis, singles))

-----------------------------------------------------------------------------
(* DualOutputMapper: createModules, then the depth pass, the area-flow     *)
(* iterations and the exact-area pass, each ending in runGlobalMapping.    *)

MaxAreaFlowIterations == 10
INT_MAX == 2147483647

\* all_mappings of runAreaFlowMapping and runExactAreaMapping: the single
\* mappings overwritten by the two per-output entries of every DoubleCut
RECURSIVE MergeDoubleMappings(_, _, _, _)
MergeDoubleMappings(doubles, keys, i, all0) ==
    With(all0, LAMBDA all_mappings :
        IF i > Len(keys) THEN all_mappings
        ELSE LET dcut == doubles[keys[i]] IN
             MergeDoubleMappings(doubles, keys, i + 1,
                Put(Put(all_mappings, dcut.output1, SingleCut(dcut.inputs, dcut.output1)),
                    dcut.output2, SingleCut(dcut.inputs, dcut.output2))))

\* the keys of double_mappings in dict order; the first components are distinct
DoubleKeys(doubles) ==
    LET firsts == IterOrder({k[1] : k \in DOMAIN doubles})
    IN [i \in DOMAIN firsts |-> CHOOSE k \in DOMAIN doubles : k[1] = firsts[i]]

AllMappings(singles, doubles) ==
    MergeDoubleMappings(doubles, DoubleKeys(doubles), 1, singles)

\* the program has returned from a call of runGlobalMapping
MappingReturned == pc \in {"areaflow", "exact", "done"}

\* createModules; the merger is run with dual-output mapping switched on, as
\* createModules sets it, and switched off, as it is constructed
CreateModules ==
    /\ pc = "start"
    /\ \E order \in {computeTopologicalOrder} :
          /\ topo_order' = order
          /\ loop_warning' = LoopWarning(order)
          /\ \E at \in {computeArrivalTimes(order)} :
                /\ arrival_time' = at
                /\ critical_depth' = computeCriticalDepth(at)
                /\ required_time' = computeRequiredTimes(order, computeCriticalDepth(at))
    /\ enable_double_output' \in BOOLEAN
    /\ pc' = "depth"
    /\ UNCHANGED <<module, poolOrder, current_mode, cutVars, ctxVars>>
    /\ UNCHANGED <<Q, visited, single_mappings, double_mappings, pass, iter, prev_area, lut_count>>
    /\ UNCHANGED <<netVars, callVars>>

\* runDepthMapping up to the call of computePriorityCuts: setMode(DEPTH)
RunDepthMapping ==
    /\ pc = "depth"
    /\ current_mode' = "DEPTH"
    /\ pass' = "DEPTH"
    /\ pc' = "prioritycuts"
    /\ UNCHANGED <<graphVars, timingVars, cutVars, ctxVars, mergerVars, iter, prev_area, lut_count>>
    /\ UNCHANGED <<netVars, callVars>>

\* setMode(mode) and startNewIteration, up to the merge of the two mapping
\* tables (dual_output_mapper.cc:123-130 and 188-190)
BeginAreaMapping(mode) ==
    /\ current_mode' = mode
    /\ pass' = mode
    /\ current_iteration' = current_iteration + 1
    /\ pc' = "recover"
    /\ UNCHANGED <<fanout_refs, used, current_mapping, exact_area_cache, cache_iteration, ret>>
    /\ UNCHANGED <<graphVars, timingVars, cutVars, mergerVars, iter, prev_area, lut_count>>
    /\ UNCHANGED <<netVars, callVars>>

\* the head of one iteration of the loop of runAreaFlowMapping
RunAreaFlowIteration ==
    /\ pc = "areaflow"
    /\ BeginAreaMapping("AREA_FLOW")

\* the head of runExactAreaMapping
RunExactAreaMapping ==
    /\ pc = "exact"
    /\ BeginAreaMapping("EXACT_AREA")

\* recoverReferences handed the single mappings alone
RecoverSinglesOnly ==
    /\ pc = "recover"
    /\ current_mapping' = single_mappings
    /\ \E r \in {recoverReferences(single_mappings)} :
          /\ fanout_refs' = r.fanout_refs
          /\ used' = r.used
    /\ pc' = "prioritycuts"
    /\ UNCHANGED <<exact_area_cache, cache_iteration, current_iteration, ret>>
    /\ UNCHANGED <<graphVars, timingVars, current_mode, cutVars, mergerVars>>
    /\ UNCHANGED <<pass, iter, prev_area, lut_count, netVars, callVars>>

\* all_mappings is built and handed to recoverReferences
\* (dual_output_mapper.cc:133-144 and 193-204)
RecoverMapping ==
    /\ pc = "recover"
    /\ \E all_mappings \in {AllMappings(single_mappings, double_mappings)} :
          /\ current_mapping' = all_mappings
          /\ \E r \in {recoverReferences(all_mappings)} :
                /\ fanout_refs' = r.fanout_refs
                /\ used' = r.used
    /\ pc' = "prioritycuts"
    /\ UNCHANGED <<exact_area_cache, cache_iteration, current_iteration, ret>>
    /\ UNCHANGED <<graphVars, timingVars, current_mode, cutVars, mergerVars>>
    /\ UNCHANGED <<pass, iter, prev_area, lut_count, netVars, callVars>>

\* cut_mgr->computePriorityCuts(6, 20) of the three passes
RunPriorityCuts ==
    /\ pc = "prioritycuts"
    /\ max_cut_size' = 6
    /\ max_cuts' = 20
    /\ cut_pos' = Len(topo_order) + 1
    /\ priority_cuts' = computePriorityCuts(topo_order, 6, 20, Ctx, current_mode)
    /\ pc' = "mapping"
    /\ UNCHANGED <<graphVars, timingVars, current_mode, ctxVars, mergerVars>>
    /\ UNCHANGED <<pass, iter, prev_area, lut_count, netVars, callVars>>

\* runGlobalMapping up to the main loop: both tables are cleared and the
\* queue is filled (steps 1-4)
RunGlobalMapping ==
    /\ pc = "mapping"
    /\ \E st \in {InitialQueue(priority_cuts, Ctx, current_mode)} :
          /\ Q' = st.Q
          /\ visited' = st.visited
    /\ single_mappings' = <<>>
    /\ double_mappings' = <<>>
    /\ pc' = "loop"
    /\ UNCHANGED <<graphVars, timingVars, current_mode, cutVars, ctxVars>>
    /\ UNCHANGED <<enable_double_output, pass, iter, prev_area, lut_count, netVars, callVars>>

NoDoubleCut == [aborted |-> FALSE, cut |-> InvalidDoubleCut]

\* one iteration of the main loop of runGlobalMapping (step 5 and step 6)
MainLoopIteration ==
    /\ pc = "loop"
    /\ Q # <<>>
    /\ LET now_cut == Head(Q)
           now == now_cut.output
       IN \E r \in {IF enable_double_output
                    THEN findBestDoubleCut(priority_cuts, now, Tail(Q))
                    ELSE NoDoubleCut} :
            IF r.aborted
            THEN /\ pc' = "aborted"
                 /\ Q' = Tail(Q)
                 /\ UNCHANGED <<visited, single_mappings, double_mappings>>
            ELSE LET use_double == valid(r.cut)
                     inputs_to_expand == IF use_double THEN r.cut.inputs ELSE now_cut.inputs
                 IN /\ IF use_double
                       THEN /\ double_mappings' =
                                  Put(double_mappings, <<now, r.cut.output2>>, r.cut)
                            /\ UNCHANGED single_mappings
                       ELSE /\ single_mappings' = Put(single_mappings, now, now_cut)
                            /\ UNCHANGED double_mappings
                    /\ \E st \in {QueueFromGates(priority_cuts, Ctx, current_mode,
                                     IterOrder(inputs_to_expand), 1,
                                     [Q |-> Tail(Q),
                                      visited |-> IF use_double
                                                  THEN visited \cup {r.cut.output2}
                                                  ELSE visited])} :
                          /\ Q' = st.Q
                          /\ visited' = st.visited
                    /\ pc' = "loop"
    /\ UNCHANGED <<graphVars, timingVars, current_mode, cutVars, ctxVars>>
    /\ UNCHANGED <<enable_double_output, pass, iter, prev_area, lut_count>>
    /\ UNCHANGED <<netVars, callVars>>

\* the end of runGlobalMapping (step 7) and the return to the pass that
\* called it: runDepthMapping, the convergence test of runAreaFlowMapping, or
\* runExactAreaMapping
FinishMapping ==
    /\ pc = "loop"
    /\ Q = <<>>
    /\ \E singles \in {CompletionSweep(priority_cuts, IterOrder(AllCombOutputs), 1,
                                       visited, single_mappings)} :
          /\ single_mappings' = singles
          /\ visited' = visited \cup AllCombOutputs
          /\ LET current_area == Cardinality(DOMAIN singles)
                                 + Cardinality(DOMAIN double_mappings)
             IN /\ lut_count' = current_area
                /\ CASE pass = "DEPTH" ->
                          /\ pc' = "areaflow"
                          /\ iter' = 0
                          /\ prev_area' = INT_MAX
                     [] pass = "AREA_FLOW" ->
                          IF Abs(current_area - prev_area) <= 1
                          THEN /\ pc' = "exact"
                               /\ UNCHANGED <<iter, prev_area>>
                          ELSE /\ prev_area' = current_area
                               /\ iter' = iter + 1
                               /\ pc' = IF iter + 1 < MaxAreaFlowIterations
                                        THEN "areaflow" ELSE "exact"
                     [] OTHER ->
                          /\ pc' = "done"
                          /\ UNCHANGED <<iter, prev_area>>
    /\ UNCHANGED <<graphVars, timingVars, current_mode, cutVars, ctxVars>>
    /\ UNCHANGED <<enable_double_output, Q, double_mappings, pass>>
    /\ UNCHANGED <<netVars, callVars>>

-----------------------------------------------------------------------------
(* DualOutputMapper::generateNetlist.  A LUT cell is                       *)
(* [type, INIT, I, I5, Z, Z5]: I holds the bits on the ports I0, I1, ... in *)
(* order, the ports after them are tied to constant 0; I5 and Z5 are 0 on  *)
(* a GTP_LUT6, whose sixth input is I[6].                                  *)

\* the defensive check of dual_output_mapper.cc:242-248
InDoubleKeys(output) ==
    \E k \in DOMAIN double_mappings : k[1] = output \/ k[2] = output

\* the trivial cut test of dual_output_mapper.cc:258
IsTrivialCut(cut) == Cardinality(cut.inputs) = 1 /\ cut.output \in cut.inputs

\* the first loop without the test for the trivial cut
EmittedSinglesWithTrivial ==
    {output \in DOMAIN single_mappings : ~InDoubleKeys(output)}

\* the single mappings for which the first loop adds a GTP_LUT6
EmittedSingles ==
    {output \in DOMAIN single_mappings :
        ~InDoubleKeys(output) /\ ~IsTrivialCut(single_mappings[output])}

\* the GTP_LUT6 of one single mapping (steps 1-6)
SingleLut(output) ==
    LET inputs_vec == Sorted(single_mappings[output].inputs)
    IN [type |-> "GTP_LUT6", INIT |-> computeLUTInit(output, inputs_vec),
        I |-> inputs_vec, I5 |-> 0, Z |-> output, Z5 |-> 0]

\* step 3 of the second loop: the 64 bits of INIT from the table of Z
DoubleInit(z_init, z_num_inputs) ==
    IF z_num_inputs = 6 THEN z_init
    ELSE LET table_size == Pow2(z_num_inputs)
             lower == [i \in 1..32 |-> IF i <= table_size THEN z_init[i] ELSE 0]
         IN lower \o lower

\* the GTP_LUT6D of one double mapping (steps 1-7)
DoubleLut(k) ==
    LET dcut == double_mappings[k]
        i5 == dcut.selected_i5
        non_i5_inputs == Sorted(dcut.inputs \ {i5})
        z_inputs_vec == non_i5_inputs \o <<i5>>
    IN [type |-> "GTP_LUT6D",
        INIT |-> DoubleInit(computeLUTInit(k[1], z_inputs_vec), Len(z_inputs_vec)),
        I |-> non_i5_inputs, I5 |-> i5, Z |-> k[1], Z5 |-> k[2]]

\* log_error is reached: computeLUTInit fails for one of the cells to add,
\* or the table of a 6-input Z does not have 64 bits
NetlistFails ==
    \/ \E output \in EmittedSingles :
          LUTInitFailed(computeLUTInit(output, Sorted(single_mappings[output].inputs)))
    \/ \E k \in DOMAIN double_mappings :
          LET i5 == double_mappings[k].selected_i5
              z_inputs_vec == Sorted(double_mappings[k].inputs \ {i5}) \o <<i5>>
              z_init == computeLUTInit(k[1], z_inputs_vec)
          IN \/ LUTInitFailed(z_init)
             \/ (Len(z_inputs_vec) = 6 /\ Len(z_init) # 64)

\* generateNetlist: one LUT per retained single mapping, one per double
\* mapping, then every combinational gate is removed (step 10)
GenerateNetlist ==
    /\ pc = "done"
    /\ IF NetlistFails
       THEN /\ pc' = "aborted"
            /\ UNCHANGED netVars
       ELSE /\ luts' = {SingleLut(output) : output \in EmittedSingles}
                          \cup {DoubleLut(k) : k \in DOMAIN double_mappings}
            /\ removed' = {c \in Cells : IsComb(c)}
            /\ pc' = "emitted"
    /\ UNCHANGED <<graphVars, timingVars, current_mode, cutVars, ctxVars, mergerVars>>
    /\ UNCHANGED <<pass, iter, prev_area, lut_count, callVars>>

Init ==
    /\ module \in DOMAIN Modules
    /\ poolOrder \in PoolOrders
    /\ topo_order = <<>>
    /\ loop_warning = FALSE
    /\ arrival_time = <<>>
    /\ required_time = <<>>
    /\ critical_depth = 0
    /\ current_mode = "DEPTH"
    /\ CutManagerEmpty
    /\ ContextEmpty
    /\ enable_double_output = FALSE
    /\ MergerEmpty
    /\ NetlistEmpty
    /\ NoCall
    /\ pc = "start" /\ pass = "none" /\ iter = 0 /\ prev_area = 0 /\ lut_count = 0

Next ==
    \/ CreateModules
    \/ RunDepthMapping
    \/ RunAreaFlowIteration
    \/ RunExactAreaMapping
    \/ RecoverMapping
    \/ RunPriorityCuts
    \/ RunGlobalMapping
    \/ MainLoopIteration
    \/ FinishMapping
    \/ GenerateNetlist

Spec == Init /\ [][Next]_vars

-----------------------------------------------------------------------------
(* runGlobalMapping called a second time on the state the depth pass left, *)
(* with the pools and dicts iterated in the other order.                   *)

\* the tables of the run that has returned are kept, the iteration order is
\* turned round, and runGlobalMapping is entered again: the module, the
\* timing, the context and the priority cuts are those of the first call
RunGlobalMappingReordered ==
    /\ pc = "areaflow"
    /\ pass = "DEPTH"
    /\ call_args = <<>>
    /\ call_args' = <<poolOrder>>
    /\ call_ret' = [single_mappings |-> single_mappings,
                    double_mappings |-> double_mappings]
    /\ poolOrder' = IF poolOrder = "asc" THEN "desc" ELSE "asc"
    /\ pc' = "mapping"
    /\ UNCHANGED <<module, topo_order, loop_warning, timingVars, current_mode>>
    /\ UNCHANGED <<cutVars, ctxVars, mergerVars, pass, iter, prev_area, lut_count, netVars>>

NextDet ==
    \/ CreateModules
    \/ RunDepthMapping
    \/ RunPriorityCuts
    \/ RunGlobalMapping
    \/ MainLoopIteration
    \/ FinishMapping
    \/ RunGlobalMappingReordered

SpecDet == Init /\ [][NextDet]_vars

\* both calls of runGlobalMapping have returned
BothRunsReturned == pc = "areaflow" /\ call_args # <<>>

\* C22: two runs of runGlobalMapping on the same module and the same context
\* and timing state that differ only in the iteration order of the unordered
\* signal sets produce identical single_mappings and double_mappings,
\* including the selected i5 of every DoubleCut.
MappingOrderIndependent ==
    BothRunsReturned =>
        /\ single_mappings = call_ret.single_mappings
        /\ double_mappings = call_ret.double_mappings

\* the bits in the fan-in cone of a set of bits, through cells of any type
RECURSIVE FanInCone(_)
FanInCone(R0) ==
    With(R0, LAMBDA R :
        LET next == R \cup UNION {Range(getCellInputs(getDriver(s))) :
                                     s \in {x \in R : getDriver(x) # 0}}
        IN IF next = R THEN R ELSE FanInCone(next))

\* c is a key of single_mappings or an output of a DoubleCut
IsMapped(c) ==
    \/ c \in DOMAIN single_mappings
    \/ \E k \in DOMAIN double_mappings :
          double_mappings[k].output1 = c \/ double_mappings[k].output2 = c

\* C1: after runGlobalMapping returns, with dual-output mapping enabled or
\* disabled, every combinational cell output reachable from a primary output
\* is a key of single_mappings or output1 or output2 of a double_mappings entry.
Coverage ==
    MappingReturned =>
        \A c \in CombDriven \cap FanInCone(M.PO) : IsMapped(c)

\* a finished mapping of a module with a gate that drives no primary output,
\* in which one gate is covered only as output1 of a DoubleCut
CoverageWitness ==
    /\ MappingReturned
    /\ (CombDriven \cap FanInCone(M.PO)) \ M.PO # {}
    /\ \E k \in DOMAIN double_mappings :
          double_mappings[k].output1 \notin DOMAIN single_mappings

\* C2: after runGlobalMapping returns, no signal is both a key of
\* single_mappings and output1 or output2 of a double_mappings entry; a node
\* fused as Z5 while pending in Q is not recorded later as a single mapping.
OutputsDisjoint ==
    MappingReturned =>
        \A k \in DOMAIN double_mappings :
            /\ double_mappings[k].output1 \notin DOMAIN single_mappings
            /\ double_mappings[k].output2 \notin DOMAIN single_mappings

\* C3: for every DoubleCut (z, z5, inputs, i5) of double_mappings, the truth
\* table of z5 over sorted(inputs \ {i5}) is the lower half (i5 = 0) of the
\* truth table of z over sorted(inputs \ {i5}) followed by i5, whatever the
\* iteration order of the input pools.
DualOutputCorrect ==
    \A k \in DOMAIN double_mappings :
        LET dc == double_mappings[k]
            rest == Sorted(dc.inputs \ {dc.selected_i5})
        IN computeLUTInit(dc.output2, rest)
           = SubSeq(computeLUTInit(dc.output1, rest \o <<dc.selected_i5>>),
                    1, Pow2(Len(rest)))

\* the signals reached from s by following mapping(.).inputs one or more times
TransitiveInputs(m, s) == ReachableInMapping(m, m[s].inputs)

\* C10: in the mapping produced by runGlobalMapping (single_mappings with the
\* two per-output entries of every DoubleCut) no signal is among its own
\* transitive mapping inputs (stated for the modules without a combinational
\* cycle).
AcyclicMapping ==
    (MappingReturned /\ Acyclic) =>
        LET m == AllMappings(single_mappings, double_mappings)
        IN \A s \in DOMAIN m : s \notin TransitiveInputs(m, s)

\* the depth pass has returned and no later pass has started
DepthPassDone == pc = "areaflow" /\ pass = "DEPTH"

\* C11: after the depth pass every entry (s, cut) of single_mappings has
\* depth(cut) = max over the cut inputs of depth(input) + 1 at most the
\* critical depth computed by the timing analysis (stated for the modules
\* without a combinational cycle).
DepthWithinCritical ==
    (DepthPassDone /\ Acyclic) =>
        \A s \in DOMAIN single_mappings :
            computeDepth(single_mappings[s]) <= critical_depth

\* the outputs of the gates found by find_mappable_driver from a primary output
PODrivers ==
    {getCellOutput(find_mappable_driver(po, 0)) :
        po \in {p \in M.PO : find_mappable_driver(p, 0) # 0}}

\* the cuts of the final mapping: the single mappings and, for every
\* DoubleCut, its input set under each of its two outputs
ChosenCuts ==
    {single_mappings[s] : s \in DOMAIN single_mappings}
    \cup {SingleCut(double_mappings[k].inputs, double_mappings[k].output1) :
             k \in DOMAIN double_mappings}
    \cup {SingleCut(double_mappings[k].inputs, double_mappings[k].output2) :
             k \in DOMAIN double_mappings}

\* the bits between the output of a cut and its inputs, both ends included
RECURSIVE CutCone(_, _)
CutCone(R0, stop) ==
    With(R0, LAMBDA R :
        LET next == R \cup UNION {Range(getCellInputs(getDriver(s))) :
                                     s \in {x \in R \ stop : getDriver(x) # 0}}
        IN IF next = R THEN R ELSE CutCone(next, stop))

\* g lies strictly inside the cone that the cut covers
StrictlyInside(g, cut) ==
    g \in CutCone({cut.output}, cut.inputs) \ ({cut.output} \cup cut.inputs)

\* the bits on the Z and Z5 ports of the emitted LUTs
LutOutputs == {l.Z : l \in luts} \cup {l.Z5 : l \in {d \in luts : d.type = "GTP_LUT6D"}}

\* C13: a combinational gate output that lies strictly inside the cone of a
\* chosen cut, drives no primary output and is an input of no cut of the final
\* mapping is elided: generateNetlist emits no LUT for it.
InnerGatesElided ==
    pc = "emitted" =>
        \A g \in CombDriven :
            (/\ g \notin PODrivers
             /\ \E cut \in ChosenCuts : StrictlyInside(g, cut)
             /\ \A cut \in ChosenCuts : g \notin cut.inputs)
            => g \notin LutOutputs

\* some signal is a key of single_mappings and an output of a DoubleCut
MergeConflict ==
    \E k \in DOMAIN double_mappings :
        \/ double_mappings[k].output1 \in DOMAIN single_mappings
        \/ double_mappings[k].output2 \in DOMAIN single_mappings

\* C14: when the merged mapping for recoverReferences is built from tables in
\* which a signal is both a key of single_mappings and z or z5 of a DoubleCut,
\* the mapping run aborts instead of overwriting the entry and continuing.
MergeConflictAborts ==
    [][(pc = "recover" /\ MergeConflict) => pc' = "aborted"]_vars

\* the bits reached from R backwards through combinational gates only
RECURSIVE CombFanIn(_)
CombFanIn(R0) ==
    With(R0, LAMBDA R :
        LET next == R \cup UNION {Range(getCellInputs(getDriver(s))) : s \in R \cap CombDriven}
        IN IF next = R THEN R ELSE CombFanIn(next))

\* s is the output of a combinational gate that depends on itself
OnCombCycle(s) ==
    s \in CombDriven /\ s \in CombFanIn(Range(getCellInputs(getDriver(s))))

HasCombCycle == \E s \in Sigs : OnCombCycle(s)

\* C15: the topological order holds only bits driven by combinational cells,
\* holds each at most once, and places every bit after every input of its
\* driver that a combinational cell drives (inputs driven by boundary cells or
\* by nothing do not count); for a module without a combinational cycle it
\* holds every combinational cell output.
TopoOrderSound ==
    pc # "start" =>
        /\ Range(topo_order) \subseteq CombDriven
        /\ \A i, j \in DOMAIN topo_order : i # j => topo_order[i] # topo_order[j]
        /\ \A i \in DOMAIN topo_order :
              \A x \in Range(getCellInputs(getDriver(topo_order[i]))) :
                  x \in CombDriven => \E j \in 1..(i - 1) : topo_order[j] = x
        /\ ~HasCombCycle => Range(topo_order) = CombDriven

\* the order of a module without a combinational cycle, with two or more
\* gates, one of which reads the output of a boundary cell
TopoOrderWitness ==
    /\ pc # "start"
    /\ ~HasCombCycle
    /\ Len(topo_order) >= 2
    /\ \E i \in DOMAIN topo_order :
          \E x \in Range(getCellInputs(getDriver(topo_order[i]))) :
              getDriver(x) # 0 /\ ~IsComb(getDriver(x))

\* the bits reached from R backwards through the emitted LUTs
RECURSIVE LutFanIn(_)
LutFanIn(R0) ==
    With(R0, LAMBDA R :
        LET next == R \cup UNION {Range(l.I) \cup ({l.I5} \ {0}) :
                                     l \in {d \in luts : d.Z \in R \/ d.Z5 \in R}}
        IN IF next = R THEN R ELSE LutFanIn(next))

\* the LUT reads, directly or through other LUTs, one of its own outputs
LutOnCycle(l) ==
    LET back == LutFanIn(Range(l.I) \cup ({l.I5} \ {0}))
    IN l.Z \in back \/ (l.Z5 # 0 /\ l.Z5 \in back)

\* the combinational outputs that the topological order leaves out
Omitted == CombDriven \ Range(topo_order)

\* C16: the topological order leaves out every signal on a combinational
\* cycle, the warning is raised exactly when the order has fewer entries than
\* there are combinational outputs, and after the full run every signal left
\* out is unmapped or mapped with the trivial cut {s}, so no emitted LUT lies
\* on a combinational cycle.
CycleLeftUnmapped ==
    /\ pc # "start" =>
          /\ \A s \in Sigs : OnCombCycle(s) => s \notin Range(topo_order)
          /\ loop_warning <=> Len(topo_order) < Cardinality(CombDriven)
    /\ pc = "emitted" =>
          /\ \A s \in Omitted :
                /\ s \in DOMAIN single_mappings => single_mappings[s].inputs = {s}
                /\ \A k \in DOMAIN double_mappings :
                      double_mappings[k].output1 # s /\ double_mappings[k].output2 # s
                /\ s \notin LutOutputs
          /\ \A l \in luts : ~LutOnCycle(l)

\* the end of a run on a module with a combinational cycle: the warning was
\* raised, a signal of the cycle is mapped with its trivial cut, and a gate
\* outside the cycle has its LUT
CycleLeftUnmappedWitness ==
    /\ pc = "emitted"
    /\ loop_warning
    /\ \E s \in Sigs :
          /\ OnCombCycle(s)
          /\ s \in DOMAIN single_mappings
          /\ single_mappings[s].inputs = {s}
    /\ luts # {}


\* Graph and Timing have run: the order, the arrival times and the required
\* times are those of the design
TimingComputed ==
    /\ topo_order = computeTopologicalOrder
    /\ arrival_time = computeArrivalTimes(topo_order)
    /\ critical_depth = computeCriticalDepth(arrival_time)
    /\ required_time = computeRequiredTimes(topo_order, critical_depth)

\* the positions of the controller at which cuts are scored
Scoring == pc \in {"prioritycuts", "mapping", "loop"}

\* C20: the graph is built and arrival and required times are computed before
\* any cut is scored; in every area-flow iteration and in the exact-area pass
\* the calls are startNewIteration, recoverReferences on the merged mapping of
\* the previous run, computePriorityCuts, runGlobalMapping, in this order; the
\* evaluation mode changes only between runGlobalMapping calls, never while Q
\* is non-empty.
ControllerCallOrder ==
    [][ /\ Scoring' => TimingComputed'
        /\ (current_iteration' # current_iteration) =>
              /\ pc \in {"areaflow", "exact"} /\ pc' = "recover"
              /\ current_iteration' = current_iteration + 1
        /\ (pc \in {"areaflow", "exact"} /\ pc' # pc) =>
              /\ pc' = "recover"
              /\ current_iteration' = current_iteration + 1
        /\ (pc = "recover" /\ pc' # pc) =>
              /\ pc' = "prioritycuts"
              /\ current_mapping' = AllMappings(single_mappings, double_mappings)
              /\ fanout_refs' = recoverReferences(current_mapping').fanout_refs
              /\ UNCHANGED <<single_mappings, double_mappings>>
        /\ (pc' = "prioritycuts" /\ pc' # pc) => pc \in {"depth", "recover"}
        /\ (pc = "prioritycuts" /\ pc' # pc) =>
              /\ pc' = "mapping"
              /\ priority_cuts' = computePriorityCuts(topo_order, 6, 20, Ctx, current_mode)
        /\ (priority_cuts' # priority_cuts) => pc = "prioritycuts"
        /\ (pc' = "mapping" /\ pc' # pc) => pc = "prioritycuts"
        /\ (pc = "mapping" /\ pc' # pc) => pc' = "loop"
        /\ (pc' = "loop" /\ pc # "loop") => pc = "mapping"
        /\ (current_mode' # current_mode) =>
              Q = <<>> /\ Q' = <<>> /\ pc \notin {"mapping", "loop"}
      ]_vars

\* an area pass stands before computePriorityCuts: startNewIteration and
\* recoverReferences have run, on a merged mapping that holds a double cut
ControllerCallOrderWitness ==
    /\ pc = "prioritycuts"
    /\ pass \in {"AREA_FLOW", "EXACT_AREA"}
    /\ current_iteration >= 1
    /\ double_mappings # <<>>
    /\ current_mapping = AllMappings(single_mappings, double_mappings)
    /\ current_mapping # single_mappings

\* an iteration of the area-flow pass has run to the end of runGlobalMapping
AreaFlowIterationEnds == pc = "loop" /\ pass = "AREA_FLOW" /\ pc' \in {"areaflow", "exact"}

\* C21: the area-flow pass runs at most MaxAreaFlowIterations iterations, and
\* it stops before that exactly after the first iteration whose LUT count
\* (|single_mappings| + |double_mappings|) differs by at most 1 from the LUT
\* count of the preceding mapping run.
AreaFlowStopsAtConvergence ==
    [][ /\ (pass' = "AREA_FLOW" /\ pc' # "exact") => iter' < MaxAreaFlowIterations
        /\ AreaFlowIterationEnds =>
              ((pc' = "exact") <=> \/ Abs(lut_count' - lut_count) <= 1
                                   \/ iter + 1 = MaxAreaFlowIterations)
      ]_vars

\* the keys this step adds to double_mappings
NewDoubleKeys == DOMAIN double_mappings' \ DOMAIN double_mappings

\* C23: every DoubleCut returned by findBestDoubleCut(now, Q) satisfies the
\* Stage 1 conditions: output2 is the output of an element of Q other than
\* now whose cut has at most 5 inputs and does not contain its own output;
\* selected_i5 is an input of bestCut(now) and not of that cut; that cut is a
\* subset of bestCut(now).inputs without selected_i5; the DoubleCut has at
\* most 6 inputs.
DoubleCutStage1Conditions ==
    [][ \A k \in NewDoubleKeys :
          LET dc == double_mappings'[k]
              now == Head(Q).output
              cut_z == getBestCut(priority_cuts, now).inputs
          IN /\ dc.output1 = now
             /\ \E j \in 2..Len(Q) :
                   /\ Q[j].output = dc.output2
                   /\ Q[j].output # now
                   /\ Cardinality(Q[j].inputs) <= 5
                   /\ Q[j].output \notin Q[j].inputs
                   /\ dc.selected_i5 \in cut_z
                   /\ dc.selected_i5 \notin Q[j].inputs
                   /\ Q[j].inputs \subseteq cut_z \ {dc.selected_i5}
             /\ Cardinality(dc.inputs) <= 6
      ]_vars

\* a DoubleCut has been recorded whose selector is one of its inputs
DoubleCutStage1Witness ==
    /\ pc = "loop"
    /\ \E k \in DOMAIN double_mappings :
          /\ double_mappings[k].output1 = k[1]
          /\ double_mappings[k].output2 = k[2]
          /\ double_mappings[k].selected_i5 \in double_mappings[k].inputs

\* the main loop is about to pop a node with dual-output mapping switched on
PopsWithDualOutput == pc = "loop" /\ Q # <<>> /\ enable_double_output

\* the Stage 1 candidates of the node at the head of Q
HeadCandidates ==
    Stage1Candidates(priority_cuts, Head(Q).output,
                     getBestCut(priority_cuts, Head(Q).output), Tail(Q))

\* Stage 2 verification of one candidate on its own
Passes(now, c) == valid(Stage2(now, <<c>>, 1).cut)

\* C24: for each processed node at most 5 Stage 1 candidates undergo Stage 2,
\* they are the candidates with the lowest structural scores, they are tried
\* in ascending score order, and the returned DoubleCut is the first
\* candidate in that order that passes verification (candidates of equal
\* score in either order).
Stage2TriesFiveBest ==
    PopsWithDualOutput =>
        With(HeadCandidates, LAMBDA cands :
        With(findBestDoubleCut(priority_cuts, Head(Q).output, Tail(Q)), LAMBDA r :
            LET now == Head(Q).output
                I == DOMAIN cands
                Lower(i) == {j \in I : cands[j].structural_score < cands[i].structural_score}
                five == Min(Cardinality(I), MAX_CANDIDATES_FOR_VERIFICATION)
            IN IF valid(r.cut)
               THEN \E i \in I :
                       /\ r.cut = Stage2(now, <<cands[i]>>, 1).cut
                       /\ Cardinality(Lower(i)) < MAX_CANDIDATES_FOR_VERIFICATION
                       /\ \A j \in Lower(i) : ~Passes(now, cands[j])
               ELSE \E T \in SUBSET I :
                       /\ Cardinality(T) = five
                       /\ \A t \in T : \A u \in I \ T :
                             cands[t].structural_score <= cands[u].structural_score
                       /\ \A t \in T : ~Passes(now, cands[t])))

\* Stage 1 has produced more than 5 candidates of at least two scores, one beyond
\* the five lowest passes verification, and a candidate among the five is returned
Stage2TriesFiveBestWitness ==
    /\ PopsWithDualOutput
    /\ Len(HeadCandidates) > MAX_CANDIDATES_FOR_VERIFICATION
    /\ \E i, j \in DOMAIN HeadCandidates :
          HeadCandidates[i].structural_score < HeadCandidates[j].structural_score
    /\ valid(findBestDoubleCut(priority_cuts, Head(Q).output, Tail(Q)).cut)

\* the main loop pops a node and goes round again
PopsNode == pc = "loop" /\ Q # <<>> /\ pc' = "loop"

\* this step records the popped cut under now and nothing else
RecordsSingle ==
    /\ single_mappings' = Put(single_mappings, Head(Q).output, Head(Q))
    /\ double_mappings' = double_mappings

\* this step records one DoubleCut keyed (now, z5) and nothing else
RecordsDouble ==
    /\ single_mappings' = single_mappings
    /\ \E z5 \in Sigs :
          /\ <<Head(Q).output, z5>> \notin DOMAIN double_mappings
          /\ DOMAIN double_mappings' = DOMAIN double_mappings \cup {<<Head(Q).output, z5>>}
          /\ \A k \in DOMAIN double_mappings : double_mappings'[k] = double_mappings[k]
          /\ double_mappings'[<<Head(Q).output, z5>>].output1 = Head(Q).output
          /\ double_mappings'[<<Head(Q).output, z5>>].output2 = z5

\* some Stage 1 candidate of the popped node passes Stage 2 on its own
SomeCandidatePasses ==
    \E i \in DOMAIN HeadCandidates :
        Stage2(Head(Q).output, <<HeadCandidates[i]>>, 1).cut # InvalidDoubleCut

\* C25: for every node popped from Q exactly one record is made: a
\* double_mappings entry keyed (now, z5) when a candidate passes Stage 2,
\* single_mappings[now] = the popped cut otherwise; when dual-output is
\* disabled, Stage 1 yields no candidate or Stage 2 rejects all of them, the
\* node is recorded as a single-output mapping and double_mappings is left
\* unchanged by the step.
OneRecordPerNode ==
    [][ PopsNode =>
          /\ RecordsSingle \/ RecordsDouble
          /\ ~(RecordsSingle /\ RecordsDouble)
          /\ (~enable_double_output \/ HeadCandidates = <<>> \/ ~SomeCandidatePasses)
                => RecordsSingle
          /\ RecordsDouble => (enable_double_output /\ SomeCandidatePasses)
          /\ (/\ enable_double_output
              /\ findBestDoubleCut(priority_cuts, Head(Q).output, Tail(Q)).cut
                    # InvalidDoubleCut) => RecordsDouble
      ]_vars

\* both kinds of record have been made in one run with dual-output on: a
\* node fused with another, and a node recorded under its popped cut
OneRecordPerNodeWitness ==
    /\ pc = "loop"
    /\ enable_double_output
    /\ double_mappings # <<>>
    /\ single_mappings # <<>>

\* C28: every DoubleCut the mapper records has exactly 6 inputs, equal to
\* bestCut(now).inputs: a node whose best cut has 5 or fewer inputs is never
\* fused.
DoubleCutHasSixInputs ==
    [][ \A k \in NewDoubleKeys :
          /\ Cardinality(double_mappings'[k].inputs) = 6
          /\ double_mappings'[k].inputs = getBestCut(priority_cuts, Head(Q).output).inputs
      ]_vars

\* with a DoubleCut already recorded, the main loop pops a node whose best
\* cut has 5 or fewer inputs and for which Stage 1 has candidates
DoubleCutHasSixInputsWitness ==
    /\ PopsWithDualOutput
    /\ double_mappings # <<>>
    /\ Cardinality(getBestCut(priority_cuts, Head(Q).output).inputs) <= 5
    /\ HeadCandidates # <<>>

\* the output ports of the emitted cells that drive signal s
DrivingPorts(s) ==
    {<<l, port>> \in luts \X {"Z", "Z5"} : l[port] = s}

\* C29: in the netlist generateNetlist emits every signal is driven by at
\* most one LUT output (Z of a GTP_LUT6, Z or Z5 of a GTP_LUT6D): no signal
\* is an output of two different double_mappings entries, a signal present
\* in single_mappings and in a DoubleCut gets the dual-output cell only, and
\* a trivial cut emits no cell.
OneDriverPerSignal ==
    pc = "emitted" =>
        /\ \A s \in Sigs : Cardinality(DrivingPorts(s)) <= 1
        /\ \A k1, k2 \in DOMAIN double_mappings :
              k1 # k2 => {k1[1], k1[2]} \cap {k2[1], k2[2]} = {}
        /\ \A s \in DOMAIN single_mappings :
              \/ InDoubleKeys(s)
              \/ IsTrivialCut(single_mappings[s])
              => ~\E l \in luts : l.type = "GTP_LUT6" /\ l.Z = s

\* the nodes the main loop of this run has popped
Popped == DOMAIN single_mappings \cup {k[1] : k \in DOMAIN double_mappings}

\* the outputs of the cuts in the queue
Queued(q) == {q[i].output : i \in DOMAIN q}

\* every queued signal is a visited combinational output and is queued once;
\* the popped and the queued nodes together are no more than |C|
QueueBounded ==
    pc = "loop" =>
        /\ \A i, j \in DOMAIN Q : Q[i].output = Q[j].output => i = j
        /\ Queued(Q) \subseteq visited \cap AllCombOutputs
        /\ Cardinality(Popped) + Len(Q) <= Cardinality(AllCombOutputs)

\* a pop takes a node that was not popped before and the expansion inserts
\* only nodes that were not visited; the sweep maps only nodes not visited;
\* the loop is left with Q empty
QueueStepsGuarded ==
    [][ /\ (pc = "loop" /\ Q # <<>>) =>
              /\ Head(Q).output \notin Popped
              /\ Popped' = Popped \cup {Head(Q).output}
              /\ Queued(Q') \ Queued(Tail(Q)) \subseteq AllCombOutputs \ visited
              /\ Len(Q') = Len(Q) - 1 + Cardinality(Queued(Q') \ Queued(Tail(Q)))
        /\ (pc = "loop" /\ Q = <<>>) =>
              DOMAIN single_mappings' \ DOMAIN single_mappings
                  = AllCombOutputs \ visited
        /\ (pc = "loop" /\ pc' \notin {"loop", "aborted"}) => Q = <<>> /\ Q' = <<>>
        /\ visited \subseteq visited' \/ pc = "mapping"
      ]_vars

\* C30: in runGlobalMapping each signal is inserted into Q at most once
\* (guarded by visited), so the main loop pops each combinational output at
\* most once and ends with Q empty after at most |C| iterations; the fan-in
\* expansion and the completion sweep never add a node that is visited.
QueueTerminates ==
    /\ []QueueBounded
    /\ QueueStepsGuarded

\* the main loop has popped a node and the queue still holds several others
QueueTerminatesWitness ==
    /\ pc = "loop"
    /\ Popped # {}
    /\ Len(Q) >= 2
    /\ visited = AllCombOutputs

=========================================================================
